---- MODULE Spec2Model ----
(***************************************************************************)
(* The Davix H2I node: DavixH2I.execute (nodes/DavixH2I/DavixH2I.node.ts)  *)
(* and its transport helpers davixRequest / downloadToBinary               *)
(* (GenericFunctions).                                                     *)
(*                                                                         *)
(* JavaScript values are tagged records: [undef], [str], [num], [bool],    *)
(* [obj] (a function from keys to values) and [arr] (a sequence).  Numbers *)
(* are fixed-point, counted in hundredths (8200 is 82, 35 is 0.35), so the *)
(* declared default 0.35 of watermarkOpacity is representable.  Strings    *)
(* that the code scans (the binary-property list, the base URL, a path)    *)
(* are sequences of tokens: "," and " " and "/" are single characters, any *)
(* other token is a run of characters that are none of these.              *)
(***************************************************************************)
EXTENDS Naturals, Sequences, FiniteSets, TLC

VARIABLES
    creds,      \* the credential record returned by getCredentials
    nItems,     \* items.length, the number of input items
    itemIndex,  \* the loop variable of execute (0-based)
    pc,         \* where execute stands: "loop", "awaitApi", "awaitDownload", "failed", "done"
    params,     \* parameter values (and input binary metadata) read by the step just taken
    local,      \* the locals of the iteration that stay live across an await
    req,        \* the HTTP request in flight (NoReq when none)
    response,   \* the API response of the current item (Undef before it arrives)
    out,        \* the output list built so far
    error,      \* the error execute failed with ("" when none)
    sent,       \* every HTTP request issued so far: [item, method, url]
    returned    \* what execute returned (NotReturned until it returns)

vars == <<creds, nItems, itemIndex, pc, params, local, req, response, out, error, sent, returned>>

----------------------------------------------------------------------------
(* Bounds of the model *)

MaxItems == 2
MaxChanged == 1
MaxTokens == 3
MaxActions == 2
MaxResults == 2

----------------------------------------------------------------------------
(* JavaScript values *)

Undef == [undef |-> TRUE]
S(s) == [str |-> s]
N(h) == [num |-> h]
B(b) == [bool |-> b]
Obj(f) == [obj |-> f]
Arr(q) == [arr |-> q]
Int(i) == N(i * 100)
NaN == [nan |-> TRUE]

IsUndef(v) == DOMAIN v = {"undef"}
IsStr(v) == DOMAIN v = {"str"}
IsNum(v) == DOMAIN v = {"num"}
IsBool(v) == DOMAIN v = {"bool"}
IsObj(v) == DOMAIN v = {"obj"}
IsArr(v) == DOMAIN v = {"arr"}

EmptyFn == [k \in {} |-> Undef]

\* v?.key
Get(v, key) == IF IsObj(v) /\ key \in DOMAIN v.obj THEN v.obj[key] ELSE Undef

\* JavaScript truthiness: if (v), !v, v || w
Truthy(v) ==
    CASE IsUndef(v) -> FALSE
      [] IsStr(v) -> v.str # ""
      [] IsNum(v) -> v.num # 0
      [] IsBool(v) -> v.bool
      [] DOMAIN v = {"nan"} -> FALSE
      [] OTHER -> TRUE

Digit(d) ==
    CASE d = 0 -> "0" [] d = 1 -> "1" [] d = 2 -> "2" [] d = 3 -> "3" [] d = 4 -> "4"
      [] d = 5 -> "5" [] d = 6 -> "6" [] d = 7 -> "7" [] d = 8 -> "8" [] d = 9 -> "9"

RECURSIVE IntStr(_)
IntStr(n) == IF n < 10 THEN Digit(n) ELSE IntStr(n \div 10) \o Digit(n % 10)

\* String(value) of a number with at most two decimals
NumStr(h) ==
    IntStr(h \div 100) \o
        (IF h % 100 = 0 THEN ""
         ELSE "." \o Digit((h % 100) \div 10) \o
              (IF h % 10 = 0 THEN "" ELSE Digit(h % 10)))

\* String(v)
ToStr(v) ==
    CASE IsStr(v) -> v.str
      [] IsNum(v) -> NumStr(v.num)
      [] IsBool(v) -> IF v.bool THEN "true" ELSE "false"
      [] IsUndef(v) -> "undefined"
      [] DOMAIN v = {"nan"} -> "NaN"
      [] OTHER -> "[object Object]"

\* Number(v)
ToNumber(v) ==
    CASE IsNum(v) -> v
      [] IsBool(v) -> IF v.bool THEN N(100) ELSE N(0)
      [] IsStr(v) /\ v.str = "" -> N(0)
      [] OTHER -> NaN

\* Boolean(v)
ToBoolean(v) == B(Truthy(v))

\* the string a token sequence spells
RECURSIVE Join(_)
Join(q) == IF q = <<>> THEN "" ELSE Head(q) \o Join(Tail(q))

----------------------------------------------------------------------------
(* GenericFunctions: stripTrailingSlash, ensureLeadingSlash, davixRequest *)

\* stripTrailingSlash, were it to remove every trailing slash
RECURSIVE stripTrailingSlashes(_)
stripTrailingSlashes(url) ==
    IF url # <<>> /\ url[Len(url)] = "/" THEN stripTrailingSlashes(SubSeq(url, 1, Len(url) - 1))
    ELSE url

stripTrailingSlash(url) ==
    IF url # <<>> /\ url[Len(url)] = "/" THEN SubSeq(url, 1, Len(url) - 1) ELSE url

ensureLeadingSlash(path) ==
    IF path = <<>> THEN <<"/">>
    ELSE IF Head(path) = "/" THEN path ELSE <<"/">> \o path

\* String(creds.x || ''), as a token sequence
CredString(v) == IF IsStr(v) THEN v.str ELSE <<>>

BaseUrlOf(c) == stripTrailingSlash(CredString(c.baseUrl))
ApiKeyOf(c) == Join(CredString(c.apiKey))

MissingBaseUrl == "Missing Base URL in credentials."
MissingApiKey == "Missing API Key in credentials."

\* davixRequest without its two checks
CredentialErrorUnchecked(c) == ""

\* the error davixRequest throws before building the request ("" when none)
CredentialError(c) ==
    IF BaseUrlOf(c) = <<>> THEN MissingBaseUrl
    ELSE IF ApiKeyOf(c) = "" THEN MissingApiKey
    ELSE ""

\* requestOptions of davixRequest, were the caller's headers spread last
davixRequestOptionsCallerLast(c, options) ==
    [k \in DOMAIN options \cup {"url", "headers"} |->
        CASE k = "url" -> Join(BaseUrlOf(c) \o ensureLeadingSlash(options.url))
          [] k = "headers" ->
               (IF "headers" \in DOMAIN options THEN options.headers ELSE EmptyFn) @@
               ("x-api-key" :> ApiKeyOf(c))
          [] OTHER -> options[k]]

\* requestOptions of davixRequest: the caller's options, url prefixed, x-api-key set
davixRequestOptions(c, options) ==
    [k \in DOMAIN options \cup {"url", "headers"} |->
        CASE k = "url" -> Join(BaseUrlOf(c) \o ensureLeadingSlash(options.url))
          [] k = "headers" ->
               ("x-api-key" :> ApiKeyOf(c)) @@
               (IF "headers" \in DOMAIN options THEN options.headers ELSE EmptyFn)
          [] OTHER -> options[k]]

----------------------------------------------------------------------------
(* DavixH2I.node.ts: toBoolString, gatherFirstUrl, attachFiles, attachSingleFile *)

toBoolString(v) ==
    CASE IsBool(v) -> IF v.bool THEN "true" ELSE "false"
      [] IsNum(v) -> IF v.num = 100 THEN "true" ELSE "false"
      [] IsStr(v) -> v.str
      [] OTHER -> "false"

\* the loop of gatherFirstUrl, were it to return the url of the last element
LastResultUrl(results) ==
    IF results = <<>> THEN Undef ELSE S(ToStr(Get(results[Len(results)], "url")))

\* the loop of gatherFirstUrl over response.results
RECURSIVE FirstResultUrl(_)
FirstResultUrl(results) ==
    IF results = <<>> THEN Undef
    ELSE LET r == Head(results) IN
         IF Truthy(Get(r, "url")) THEN S(ToStr(Get(r, "url")))
         ELSE IF IsStr(r) THEN r
         ELSE FirstResultUrl(Tail(results))

\* gatherFirstUrl, were it to pass over a response.url that is empty
gatherFirstUrlNonEmpty(resp) ==
    IF Truthy(Get(resp, "url")) /\ IsStr(Get(resp, "url")) THEN Get(resp, "url")
    ELSE IF IsArr(Get(resp, "results")) THEN FirstResultUrl(Get(resp, "results").arr)
    ELSE Undef

\* gatherFirstUrl, were it to return String(response.url) whatever its type
gatherFirstUrlUntyped(resp) == S(ToStr(Get(resp, "url")))

gatherFirstUrl(resp) ==
    IF IsStr(Get(resp, "url")) THEN S(ToStr(Get(resp, "url")))
    ELSE IF IsArr(Get(resp, "results")) THEN FirstResultUrl(Get(resp, "results").arr)
    ELSE Undef

\* propList.split(','): the segments between commas
RECURSIVE SplitComma(_, _)
SplitComma(toks, cur) ==
    IF toks = <<>> THEN <<cur>>
    ELSE IF Head(toks) = "," THEN <<cur>> \o SplitComma(Tail(toks), <<>>)
    ELSE SplitComma(Tail(toks), Append(cur, Head(toks)))

RECURSIVE TrimLeft(_)
TrimLeft(q) == IF q # <<>> /\ Head(q) = " " THEN TrimLeft(Tail(q)) ELSE q

RECURSIVE TrimRight(_)
TrimRight(q) ==
    IF q # <<>> /\ q[Len(q)] = " " THEN TrimRight(SubSeq(q, 1, Len(q) - 1)) ELSE q

\* s.trim(), were it to leave the string as it is
TrimNothing(q) == q

\* s.trim()
Trim(q) == TrimRight(TrimLeft(q))

\* .map((s) => s.trim()).filter(Boolean), were it to keep a name once only
RECURSIVE TrimAndFilterDistinct(_)
TrimAndFilterDistinct(segs) ==
    IF segs = <<>> THEN <<>>
    ELSE LET name == Join(Trim(segs[Len(segs)]))
             before == TrimAndFilterDistinct(SubSeq(segs, 1, Len(segs) - 1))
         IN IF name # "" /\ \A i \in DOMAIN before : before[i] # name
            THEN Append(before, name) ELSE before

\* .map((s) => s.trim()).filter(Boolean), each name spelled out
RECURSIVE TrimAndFilter(_)
TrimAndFilter(segs) ==
    IF segs = <<>> THEN <<>>
    ELSE LET name == Join(Trim(Head(segs))) IN
         (IF name # "" THEN <<name>> ELSE <<>>) \o TrimAndFilter(Tail(segs))

PropNames(propList) == TrimAndFilter(SplitComma(propList, <<>>))

NoBinaryNames == "No binary property names provided."

\* value || fallback, in the place of value ?? fallback
FalsyOr(v, fallback) == IF Truthy(v) THEN v ELSE fallback

\* value ?? fallback
Nullish(v, fallback) == IF IsUndef(v) THEN fallback ELSE v

\* one multipart file part: { value: buffer, options: { filename, contentType } }
FilePart(item, binary, name, fallbackName) ==
    LET meta == Get(binary, name) IN
    [value |-> [item |-> item, property |-> name],
     filename |-> Nullish(Get(meta, "fileName"), S(fallbackName)),
     contentType |-> Get(meta, "mimeType")]

Put(form, name, v) == (name :> v) @@ form

\* the loop of attachFiles, were it to push under 'images' whatever the field
PushFilesUnderImages(form, fieldName, names, item, binary) ==
    Put(form, "images",
        Arr([i \in DOMAIN names |->
                FilePart(item, binary, names[i], fieldName \o "-" \o names[i])]))

\* the loop of attachFiles: formData[fieldName].push(...) for each name
RECURSIVE PushFiles(_, _, _, _, _)
PushFiles(form, fieldName, names, item, binary) ==
    IF names = <<>> THEN form
    ELSE LET old == IF fieldName \in DOMAIN form THEN form[fieldName].arr ELSE <<>>
             part == FilePart(item, binary, Head(names), fieldName \o "-" \o Head(names))
         IN PushFiles(Put(form, fieldName, Arr(Append(old, part))),
                      fieldName, Tail(names), item, binary)

\* what helpers.getBinaryDataBuffer rejects with; the helper is the host's
NoBinaryData == "getBinaryDataBuffer: the item has no such binary property"

\* whether helpers.getBinaryDataBuffer(itemIndex, name) resolves: it does for
\* a property the item has; for one it lacks, buffers tells (the host decides)
HasBuffer(binary, buffers, name) ==
    buffers \/ (IsObj(binary) /\ name \in DOMAIN binary.obj)

\* attachFiles: [error, form]
attachFiles(fieldName, propList, form, item, binary, buffers) ==
    LET names == PropNames(propList) IN
    IF Len(names) = 0 THEN [error |-> NoBinaryNames, form |-> form]
    ELSE IF \E i \in DOMAIN names : ~HasBuffer(binary, buffers, names[i])
    THEN [error |-> NoBinaryData, form |-> form]
    ELSE [error |-> "", form |-> PushFiles(form, fieldName, names, item, binary)]

\* attachSingleFile, were it to push the file onto the parts under 'images'
attachSingleFilePushed(fieldName, propName, item, binary) ==
    IF ~Truthy(propName) THEN EmptyFn
    ELSE ("images" :> Arr(<<FilePart(item, binary, ToStr(propName), fieldName)>>))

\* attachSingleFile: formData[fieldName] = { value, options }, nothing for an
\* empty name; the assignment it makes
attachSingleFile(fieldName, propName, item, binary) ==
    IF ~Truthy(propName) THEN EmptyFn
    ELSE (fieldName :> [part |-> FilePart(item, binary, ToStr(propName), fieldName)])

----------------------------------------------------------------------------
(* The setters each multipart branch of execute defines: the assignment   *)
(* to formData a call makes, a function from the field to its value, empty *)
(* when the call assigns nothing                                           *)

Assign(name, v) == (name :> v)
Nothing == EmptyFn

\* setNumber, were it to assign whatever the value
setNumberAlways(name, value) == Assign(name, S(ToStr(value)))

\* setNumber: omitted when undefined, null or 0, else String(value)
setNumber(name, value) ==
    IF ~IsUndef(value) /\ value # N(0) THEN Assign(name, S(ToStr(value))) ELSE Nothing

\* setString of the image branch: omitted when undefined, null or ''
setStringImage(name, value) ==
    IF ~IsUndef(value) /\ value # S("") THEN Assign(name, value) ELSE Nothing

\* setString of the pdf and tools branches: omitted when falsy
setStringPdf(name, value) ==
    IF Truthy(value) THEN Assign(name, value) ELSE Nothing

setBool(name, value) == Assign(name, S(toBoolString(value)))

----------------------------------------------------------------------------
(* The statements of a branch, in source order.  A statement is one line   *)
(* of the dispatcher: which setter it calls, the form field it writes and  *)
(* the node parameter (or options key) it reads.                           *)

Num(field, param) == [k |-> "num", field |-> field, param |-> param]
Str(field, param) == [k |-> "str", field |-> field, param |-> param]
StrP(field, param) == [k |-> "strp", field |-> field, param |-> param]
Bool(field, param) == [k |-> "bool", field |-> field, param |-> param]
Raw(field, param) == [k |-> "raw", field |-> field, param |-> param]
Const(field, value) == [k |-> "const", field |-> field, param |-> value]
File(field, param) == [k |-> "file", field |-> field, param |-> param]
O(kind, key) == [k |-> kind, field |-> key, param |-> key]
T(tool, kind, key) == [k |-> kind, field |-> key, param |-> key, tool |-> tool]

\* includePdfFields
includePdfFields ==
    <<Raw("pdfMode", "pdfMode"), Raw("pdfPageSize", "pdfPageSize"),
      Raw("pdfOrientation", "pdfOrientation"), Num("pdfMargin", "pdfMargin"),
      Raw("pdfEmbedFormat", "pdfEmbedFormat"), Num("pdfJpegQuality", "pdfJpegQuality")>>

KeepMetadata == Bool("keepMetadata", "keepMetadata")
Format == Raw("format", "imageFormat")

\* the multitask case of the image switch
ImageMultitask ==
    <<O("ostrcast", "format"), O("onum", "width"), O("onum", "height"),
      O("obool", "enlarge"), O("obool", "normalizeOrientation"),
      O("onum", "cropX"), O("onum", "cropY"), O("onum", "cropWidth"),
      O("onum", "cropHeight"), O("ostr", "backgroundColor"), O("onum", "rotate"),
      O("obool", "flipH"), O("obool", "flipV"), O("oraw", "colorSpace"),
      O("onum", "targetSizeKB"), O("onum", "quality"), O("obool", "keepMetadata"),
      O("onum", "blur"), O("onum", "sharpen"), O("obool", "grayscale"),
      O("obool", "sepia"), O("onum", "brightness"), O("onum", "contrast"),
      O("onum", "saturation"), O("onum", "pad"), O("onum", "padTop"),
      O("onum", "padRight"), O("onum", "padBottom"), O("onum", "padLeft"),
      O("ostr", "padColor"), O("onum", "borderRadius"), O("onum", "border"),
      O("ostr", "borderColor"), O("onum", "backgroundBlur"),
      O("ostr", "watermarkText"), O("onum", "watermarkFontSize"),
      O("ostr", "watermarkColor"), O("onum", "watermarkOpacity"),
      O("oraw", "watermarkPosition"), O("onum", "watermarkMargin"),
      O("onum", "watermarkScale"), O("oraw", "pdfMode"), O("oraw", "pdfPageSize"),
      O("oraw", "pdfOrientation"), O("onum", "pdfMargin"), O("oraw", "pdfEmbedFormat"),
      O("onum", "pdfJpegQuality"), O("obool", "includeRawExif"),
      [k |-> "wm", field |-> "watermarkImage", param |-> "watermarkBinaryProperty"]>>

\* switch (action) of the image branch
ImageCase(action) ==
    CASE action = "format" ->
           <<Format, KeepMetadata, Num("width", "imageWidth"), Num("height", "imageHeight")>>
      [] action = "resize" ->
           <<Format, Num("width", "imageWidth"), Num("height", "imageHeight"),
             Bool("enlarge", "enlarge"),
             Bool("normalizeOrientation", "normalizeOrientation"), KeepMetadata>>
      [] action = "crop" ->
           <<Format, Num("cropX", "cropX"), Num("cropY", "cropY"),
             Num("cropWidth", "cropWidth"), Num("cropHeight", "cropHeight"),
             Bool("normalizeOrientation", "normalizeOrientation"),
             Str("backgroundColor", "backgroundColor"), KeepMetadata>>
      [] action = "transform" ->
           <<Format, Num("rotate", "rotate"), Bool("flipH", "flipH"), Bool("flipV", "flipV"),
             Raw("colorSpace", "colorSpace"), KeepMetadata>>
      [] action = "compress" ->
           <<Format, Num("targetSizeKB", "targetSizeKB"), Num("quality", "quality"),
             Raw("colorSpace", "colorSpace"), Str("backgroundColor", "backgroundColor"),
             KeepMetadata>>
      [] action = "enhance" ->
           <<Format, Num("blur", "blur"), Num("sharpen", "sharpen"),
             Bool("grayscale", "grayscale"), Bool("sepia", "sepia"),
             Num("brightness", "brightness"), Num("contrast", "contrast"),
             Num("saturation", "saturation"),
             Bool("normalizeOrientation", "normalizeOrientation"), KeepMetadata>>
      [] action = "padding" ->
           <<Format, Num("pad", "pad"),
             [k |-> "padGroup", field |-> "", param |-> ""],
             Str("padColor", "padColor"), Num("borderRadius", "borderRadius"),
             KeepMetadata>>
      [] action = "frame" ->
           <<Format, Num("border", "border"), Str("borderColor", "borderColor"),
             Num("pad", "pad"), Str("padColor", "padColor"), KeepMetadata>>
      [] action = "background" ->
           <<Format, Str("backgroundColor", "backgroundColor"),
             Num("backgroundBlur", "backgroundBlur"), Num("borderRadius", "borderRadius"),
             Str("padColor", "padColor"), KeepMetadata>>
      [] action = "watermark" ->
           <<Format, Str("watermarkText", "watermarkText"),
             Num("watermarkFontSize", "watermarkFontSize"),
             Str("watermarkColor", "watermarkColor"),
             Num("watermarkOpacity", "watermarkOpacity"),
             Raw("watermarkPosition", "watermarkPosition"),
             Num("watermarkMargin", "watermarkMargin"),
             Num("watermarkScale", "watermarkScale"),
             [k |-> "wm", field |-> "watermarkImage", param |-> "watermarkImageBinaryProp"],
             KeepMetadata>>
      [] action = "pdf" ->
           <<Const("format", "pdf")>> \o includePdfFields \o <<KeepMetadata>>
      [] action = "metadata" ->
           <<Bool("normalizeOrientation", "normalizeOrientation"), KeepMetadata,
             Bool("includeRawExif", "includeRawExif")>>
      [] action = "multitask" -> ImageMultitask
      [] OTHER -> <<>>

\* the chain of if (action === ...) of the pdf branch
PdfCase(action) ==
    CASE action = "merge" -> <<Bool("sortByName", "sortByName")>>
      [] action = "split" -> <<StrP("ranges", "ranges"), StrP("prefix", "prefix")>>
      [] action = "to-images" ->
           <<StrP("pages", "pages"), StrP("toFormat", "toFormat"),
             Num("width", "pdfWidth"), Num("height", "pdfHeight"), Num("dpi", "dpi")>>
      [] action = "extract-images" ->
           <<StrP("pages", "pages"), StrP("imageFormat", "extractImageFormat")>>
      [] action = "watermark" ->
           <<StrP("pages", "pages"), StrP("watermarkText", "watermarkText"),
             Num("watermarkOpacity", "watermarkOpacity"),
             StrP("watermarkPosition", "watermarkPosition"),
             Num("watermarkMargin", "watermarkMargin"),
             Num("watermarkFontSize", "watermarkFontSize"),
             StrP("watermarkColor", "watermarkColor"),
             Num("watermarkScale", "watermarkScale"),
             File("watermarkImage", "watermarkImageBinaryProp")>>
      [] action = "rotate" -> <<Num("degrees", "degrees"), StrP("pages", "pages")>>
      [] action = "metadata" ->
           <<StrP("title", "title"), StrP("author", "author"), StrP("subject", "subject"),
             StrP("keywords", "keywords"), StrP("creator", "creator"),
             StrP("producer", "producer"), Bool("cleanAllMetadata", "cleanAllMetadata")>>
      [] action = "reorder" -> <<StrP("order", "order")>>
      [] action = "delete-pages" -> <<StrP("pages", "pages")>>
      [] action = "extract" ->
           <<StrP("pages", "pages"), StrP("mode", "mode"), StrP("prefix", "prefix")>>
      [] action = "flatten" -> <<Bool("flattenForms", "flattenForms")>>
      [] action = "encrypt" ->
           <<StrP("userPassword", "userPassword"), StrP("ownerPassword", "ownerPassword")>>
      [] action = "decrypt" -> <<StrP("password", "password")>>
      [] OTHER -> <<>>

\* the chain of if (hasTool(...)) of the tools branch
ToolsOptions ==
    <<T("metadata", "obool", "includeRawExif"), T("palette", "onum", "paletteSize"),
      T("hash", "ostrp", "hashType"), T("quality", "onum", "qualitySample"),
      T("transparency", "onum", "transparencySample"),
      T("similarity", "ostrp", "similarityMode"),
      T("similarity", "onum", "similarityThreshold"),
      T("efficiency", "ostrp", "efficiencyFormat"),
      T("efficiency", "onum", "efficiencyQuality")>>

----------------------------------------------------------------------------
(* Running the statements of a branch.  inp is what the iteration reads:   *)
(* p (the node parameters of the item), item (itemIndex), binary           *)
(* (items[itemIndex].binary) and tools (selectedTools of the tools branch) *)

\* hasVal(key), were it to hold of every key
hasValAlways(options, key) == TRUE

\* hasVal(key) / hasOpt(key): Object.prototype.hasOwnProperty.call(options, key)
hasVal(options, key) == IsObj(options) /\ key \in DOMAIN options.obj

\* the assignments to formData one statement of a branch makes
Exec(st, inp) ==
    LET p == inp.p
        has == hasVal(p.options, st.param)
                 /\ ("tool" \in DOMAIN st => \E i \in DOMAIN inp.tools : inp.tools[i] = st.tool)
        ov == Get(p.options, st.param)
    IN
    CASE st.k = "num" -> setNumber(st.field, p[st.param])
      [] st.k = "str" -> setStringImage(st.field, p[st.param])
      [] st.k = "strp" -> setStringPdf(st.field, p[st.param])
      [] st.k = "bool" -> setBool(st.field, p[st.param])
      [] st.k = "raw" -> Assign(st.field, p[st.param])
      [] st.k = "const" -> Assign(st.field, S(st.param))
      [] st.k = "file" -> attachSingleFile(st.field, p[st.param], inp.item, inp.binary)
      [] st.k = "wm" ->
           IF Truthy(p[st.param])
           THEN attachSingleFile("watermarkImage", p[st.param], inp.item, inp.binary)
           ELSE Nothing
      [] st.k = "padGroup" ->
           IF Truthy(p.padTop) \/ Truthy(p.padRight) \/ Truthy(p.padBottom)
                \/ Truthy(p.padLeft)
           THEN setNumber("padTop", p.padTop) @@ setNumber("padRight", p.padRight)
                @@ setNumber("padBottom", p.padBottom) @@ setNumber("padLeft", p.padLeft)
           ELSE Nothing
      [] st.k = "ostrcast" -> IF has THEN setStringImage(st.field, ov) ELSE Nothing
      [] st.k = "ostr" -> IF has THEN setStringImage(st.field, S(ToStr(ov))) ELSE Nothing
      [] st.k = "ostrp" -> IF has THEN setStringPdf(st.field, S(ToStr(ov))) ELSE Nothing
      [] st.k = "onum" -> IF has THEN setNumber(st.field, ToNumber(ov)) ELSE Nothing
      [] st.k = "obool" -> IF has THEN setBool(st.field, ToBoolean(ov)) ELSE Nothing
      [] st.k = "oraw" -> IF has THEN Assign(st.field, S(ToStr(ov))) ELSE Nothing

\* formData after the assignments writes[1], writes[2], ... were made in
\* order: a field holds what the last assignment to it wrote, and what it
\* held before when there was none
Assigned(form, writes) ==
    LET writers(f) == {i \in DOMAIN writes : f \in DOMAIN writes[i]}
        last(f) == CHOOSE i \in writers(f) : \A j \in writers(f) : j <= i
    IN [f \in DOMAIN form \cup UNION {DOMAIN writes[i] : i \in DOMAIN writes} |->
            IF writers(f) # {} THEN writes[last(f)][f] ELSE form[f]]

\* whether a statement attaching a single file fails in getBinaryDataBuffer
FileFails(st, inp) ==
    /\ st.k \in {"file", "wm"}
    /\ Truthy(inp.p[st.param])
    /\ ~HasBuffer(inp.binary, inp.buffers, ToStr(inp.p[st.param]))

\* the error the statements of a branch end with ("": none)
RunError(stmts, inp) ==
    IF \E i \in DOMAIN stmts : FileFails(stmts[i], inp) THEN NoBinaryData ELSE ""

\* formData after the statements of a branch ran in order
Run(form, stmts, inp) ==
    Assigned(form, [i \in DOMAIN stmts |-> Exec(stmts[i], inp)] @@ EmptyFn)

\* tools.join(',')
RECURSIVE JoinComma(_)
JoinComma(q) ==
    IF q = <<>> THEN ""
    ELSE IF Len(q) = 1 THEN ToStr(q[1])
    ELSE ToStr(q[1]) \o "," \o JoinComma(Tail(q))

RECURSIVE Strings(_)
Strings(q) == IF q = <<>> THEN <<>> ELSE <<ToStr(Head(q))>> \o Strings(Tail(q))

NoToolSelected == "Select one tool for single action."

----------------------------------------------------------------------------
(* The four branches of the loop body up to the call of davixRequest:      *)
(* [error, options], options being the argument of davixRequest            *)

PathH2i == <<"/", "v1", "/", "h2i">>
PathImage == <<"/", "v1", "/", "image">>
PathPdf == <<"/", "v1", "/", "pdf">>
\* the tools branch, were it to post to the image endpoint
PathToolsAsImage == <<"/", "v1", "/", "image">>
PathTools == <<"/", "v1", "/", "tools">>

\* the body of the h2i branch, were its if (action === 'image') left out
H2iBodyNoFormat(p) ==
    [action |-> p.operation, html |-> p.html, css |-> p.css,
     width |-> p.width, height |-> p.height]

H2iBody(p) ==
    LET base == [action |-> p.operation, html |-> p.html, css |-> p.css,
                 width |-> p.width, height |-> p.height]
    IN IF p.operation = S("image")
       THEN Put(base, "format", p.format)
       ELSE Put(Put(Put(Put(Put(base, "pdfPageSize", p.h2iPdfPageSize),
                "pdfOrientation", p.h2iPdfOrientation), "pdfMargin", p.h2iPdfMargin),
                "pdfEmbedFormat", p.h2iPdfEmbedFormat),
                "pdfJpegQuality", p.h2iPdfJpegQuality)

H2iBranch(inp) ==
    [error |-> "",
     options |-> [method |-> "POST", url |-> PathH2i, json |-> TRUE,
                  body |-> H2iBody(inp.p)]]

MultipartOptions(path, form) ==
    [method |-> "POST", url |-> path, formData |-> form, json |-> TRUE]

ImageBranch(inp) ==
    LET p == inp.p
        att == attachFiles("images", p.imageBinaryProps.toks,
                           [action |-> p.operation], inp.item, inp.binary, inp.buffers)
        stmts == ImageCase(p.operation.str)
    IN IF att.error # "" THEN [error |-> att.error, options |-> Undef]
       ELSE IF RunError(stmts, inp) # ""
       THEN [error |-> RunError(stmts, inp), options |-> Undef]
       ELSE [error |-> "",
             options |-> MultipartOptions(PathImage, Run(att.form, stmts, inp))]

\* the pdf branch, were the fields of split set whenever the item has them
PdfBranchSplitAlways(inp) ==
    LET p == inp.p
        att == attachFiles("files", p.pdfBinaryProps.toks,
                           [action |-> p.operation], inp.item, inp.binary, inp.buffers)
        stmts == PdfCase(p.operation.str) \o
                 (IF {"ranges", "prefix"} \subseteq DOMAIN p /\ p.operation # S("split")
                  THEN PdfCase("split") ELSE <<>>)
    IN IF att.error # "" THEN [error |-> att.error, options |-> Undef]
       ELSE [error |-> "",
             options |-> MultipartOptions(PathPdf, Run(att.form, stmts, inp))]

\* the pdf branch: action, files, then the fields of the action
PdfBranch(inp) ==
    LET p == inp.p
        att == attachFiles("files", p.pdfBinaryProps.toks,
                           [action |-> p.operation], inp.item, inp.binary, inp.buffers)
        stmts == PdfCase(p.operation.str)
    IN IF att.error # "" THEN [error |-> att.error, options |-> Undef]
       ELSE IF RunError(stmts, inp) # ""
       THEN [error |-> RunError(stmts, inp), options |-> Undef]
       ELSE [error |-> "",
             options |-> MultipartOptions(PathPdf, Run(att.form, stmts, inp))]

\* the tools branch, were hasTool to hold of every tool
ToolsBranchAnyTool(inp) ==
    LET p == inp.p
        att == attachFiles("images", p.toolsBinaryProps.toks,
                           [action |-> p.operation], inp.item, inp.binary, inp.buffers)
        single == p.operation = S("single")
        withTools == Put(att.form, "tools",
                         IF single THEN p.tool ELSE S(JoinComma(p.tools.arr)))
    IN IF att.error # "" THEN [error |-> att.error, options |-> Undef]
       ELSE IF single /\ ~Truthy(p.tool)
       THEN [error |-> NoToolSelected, options |-> Undef]
       ELSE [error |-> "",
             options |-> MultipartOptions(PathTools,
                             Run(withTools, ToolsOptions,
                                 [inp EXCEPT !.tools =
                                     <<"metadata", "palette", "hash", "quality",
                                       "transparency", "similarity", "efficiency">>]))]

\* the tools branch: action, images, tools, then the options of the tools
ToolsBranch(inp) ==
    LET p == inp.p
        att == attachFiles("images", p.toolsBinaryProps.toks,
                           [action |-> p.operation], inp.item, inp.binary, inp.buffers)
        single == p.operation = S("single")
        selectedTools == IF single THEN <<ToStr(p.tool)>> ELSE Strings(p.tools.arr)
        withTools == Put(att.form, "tools",
                         IF single THEN p.tool ELSE S(JoinComma(p.tools.arr)))
    IN IF att.error # "" THEN [error |-> att.error, options |-> Undef]
       ELSE IF single /\ ~Truthy(p.tool)
       THEN [error |-> NoToolSelected, options |-> Undef]
       ELSE [error |-> "",
             options |-> MultipartOptions(PathTools,
                             Run(withTools, ToolsOptions,
                                 [inp EXCEPT !.tools = selectedTools]))]

Branch(inp) ==
    CASE inp.p.resource = S("h2i") -> H2iBranch(inp)
      [] inp.p.resource = S("image") -> ImageBranch(inp)
      [] inp.p.resource = S("pdf") -> PdfBranch(inp)
      [] inp.p.resource = S("tools") -> ToolsBranch(inp)

----------------------------------------------------------------------------
(* The node parameters: description.properties with their declared         *)
(* defaults.  A string the code splits is kept as its tokens, [toks].      *)

Toks(q) == [toks |-> q]

Defaults ==
    [resource |-> S("h2i"), operation |-> S("image"),
     \* h2i
     html |-> S(""), css |-> S(""), width |-> Int(1000), height |-> Int(1500),
     format |-> S("png"), h2iPdfPageSize |-> S("auto"),
     h2iPdfOrientation |-> S("portrait"), h2iPdfMargin |-> Int(0),
     h2iPdfEmbedFormat |-> S("png"), h2iPdfJpegQuality |-> Int(85),
     \* image
     imageBinaryProps |-> Toks(<<"data">>), imageFormat |-> S("webp"),
     imageWidth |-> Int(0), imageHeight |-> Int(0), enlarge |-> B(FALSE),
     normalizeOrientation |-> B(FALSE), cropX |-> Int(0), cropY |-> Int(0),
     cropWidth |-> Int(0), cropHeight |-> Int(0), backgroundColor |-> S(""),
     rotate |-> Int(0), flipH |-> B(FALSE), flipV |-> B(FALSE),
     colorSpace |-> S("srgb"), targetSizeKB |-> Int(0), quality |-> Int(82),
     keepMetadata |-> B(FALSE), blur |-> Int(0), sharpen |-> Int(0),
     grayscale |-> B(FALSE), sepia |-> B(FALSE), brightness |-> Int(0),
     contrast |-> Int(0), saturation |-> Int(0), pad |-> Int(0), padTop |-> Int(0),
     padRight |-> Int(0), padBottom |-> Int(0), padLeft |-> Int(0),
     padColor |-> S(""), border |-> Int(0), borderColor |-> S(""),
     borderRadius |-> Int(0), backgroundBlur |-> Int(0), watermarkText |-> S(""),
     watermarkFontSize |-> Int(24), watermarkColor |-> S("#000000"),
     watermarkOpacity |-> N(35), watermarkPosition |-> S("center"),
     watermarkMargin |-> Int(8), watermarkScale |-> Int(1),
     watermarkImageBinaryProp |-> S(""), pdfMode |-> S("single"),
     pdfPageSize |-> S("auto"), pdfOrientation |-> S("portrait"),
     pdfMargin |-> Int(0), pdfEmbedFormat |-> S("png"), pdfJpegQuality |-> Int(85),
     includeRawExif |-> B(FALSE), options |-> Obj(EmptyFn),
     watermarkBinaryProperty |-> S(""),
     \* pdf
     pdfBinaryProps |-> Toks(<<"data">>), sortByName |-> B(FALSE), ranges |-> S(""),
     prefix |-> S("split_"), pages |-> S("all"), toFormat |-> S("png"),
     pdfWidth |-> Int(0), pdfHeight |-> Int(0), dpi |-> Int(150),
     extractImageFormat |-> S("png"), degrees |-> Int(0), title |-> S(""),
     author |-> S(""), subject |-> S(""), keywords |-> S(""), creator |-> S(""),
     producer |-> S(""), cleanAllMetadata |-> B(FALSE), order |-> S(""),
     mode |-> S("range"), flattenForms |-> B(FALSE), userPassword |-> S(""),
     ownerPassword |-> S(""), password |-> S(""),
     \* tools
     toolsBinaryProps |-> Toks(<<"data">>), tool |-> S("metadata"),
     tools |-> Arr(<<S("metadata")>>)]

\* the declared defaults of the keys of the two options collections that
\* differ from the top-level parameter of the same name or have none
OptionDefaults ==
    [format |-> S("webp"), width |-> Int(0), height |-> Int(0),
     paletteSize |-> Int(5), hashType |-> S("phash"), similarityMode |-> S(""),
     similarityThreshold |-> Int(0), qualitySample |-> Int(0),
     transparencySample |-> Int(0), efficiencyFormat |-> S(""),
     efficiencyQuality |-> Int(0)]

OptionDefault(key) ==
    IF key \in DOMAIN OptionDefaults THEN OptionDefaults[key] ELSE Defaults[key]

Operations(resource) ==
    CASE resource = "h2i" -> {"image", "pdf"}
      [] resource = "image" ->
           {"format", "resize", "crop", "transform", "compress", "enhance", "padding",
            "frame", "background", "watermark", "pdf", "metadata", "multitask"}
      [] resource = "pdf" ->
           {"to-images", "merge", "split", "compress", "extract-images", "watermark",
            "rotate", "metadata", "reorder", "delete-pages", "extract", "flatten",
            "encrypt", "decrypt"}
      [] resource = "tools" -> {"single", "multitask"}

Resources == {"h2i", "image", "pdf", "tools"}

ToolNames ==
    {"metadata", "colors", "detect-format", "orientation", "hash", "similarity",
     "dimensions", "palette", "transparency", "quality", "efficiency"}

----------------------------------------------------------------------------
(* The inputs drawn: parameter values, binary metadata, credentials        *)

\* the values drawn for the parameters of type options
OptionChoices ==
    [format |-> {S("png"), S("jpeg")}, imageFormat |-> {S("webp"), S("jpeg")},
     h2iPdfPageSize |-> {S("auto"), S("a4")},
     h2iPdfOrientation |-> {S("portrait"), S("landscape")},
     h2iPdfEmbedFormat |-> {S("png"), S("jpeg")},
     colorSpace |-> {S("srgb"), S("display-p3")},
     watermarkPosition |-> {S("center"), S("top-left")},
     pdfMode |-> {S("single"), S("multi")}, pdfPageSize |-> {S("auto"), S("a4")},
     pdfOrientation |-> {S("portrait"), S("landscape")},
     pdfEmbedFormat |-> {S("png"), S("jpeg")}, toFormat |-> {S("png"), S("jpeg")},
     extractImageFormat |-> {S("png"), S("jpeg")},
     hashType |-> {S("phash"), S("md5")},
     tool |-> {S("metadata"), S("palette"), S("")},
     tools |-> {Arr(<<S("metadata")>>), Arr(<<>>),
                Arr(<<S("palette"), S("hash")>>)}]

\* the values drawn for a parameter (or options key) whose declared default is d
ChoicesOf(name, d) ==
    IF name \in DOMAIN OptionChoices THEN OptionChoices[name]
    ELSE CASE IsNum(d) -> {Int(0), Int(7), d}
           [] IsBool(d) -> {B(TRUE), B(FALSE), S("yes"), Int(1)}
           [] IsStr(d) -> {S(""), S("x"), d}

Choices(name) == ChoicesOf(name, Defaults[name])

Tokens == {"data", "b", ",", " "}

\* the token sequences of length at most n
RECURSIVE TokSeqs(_)
TokSeqs(n) ==
    IF n = 0 THEN {<<>>}
    ELSE LET shorter == TokSeqs(n - 1) IN
         shorter \cup {Append(q, c) : q \in shorter, c \in Tokens}

\* the parameter holding the binary-property list of a resource
PropsParam(resource) ==
    CASE resource = "image" -> "imageBinaryProps"
      [] resource = "pdf" -> "pdfBinaryProps"
      [] resource = "tools" -> "toolsBinaryProps"

\* the parameters the statements read
ParamsOf(stmts) ==
    UNION {CASE stmts[i].k \in {"num", "str", "strp", "bool", "raw", "file", "wm"} ->
                  {stmts[i].param}
             [] stmts[i].k = "padGroup" -> {"padTop", "padRight", "padBottom", "padLeft"}
             [] OTHER -> {}
           : i \in DOMAIN stmts}

\* the options keys the statements read
KeysOf(stmts) ==
    {stmts[i].param :
        i \in {j \in DOMAIN stmts :
                 stmts[j].k \in {"ostrcast", "ostr", "ostrp", "onum", "obool", "oraw"}}}

\* the parameters a branch reads for an operation, the binary-property list aside
ParamsRead(resource, operation) ==
    CASE resource = "h2i" ->
           {"html", "css", "width", "height"} \cup
           (IF operation = "image" THEN {"format"}
            ELSE {"h2iPdfPageSize", "h2iPdfOrientation", "h2iPdfMargin",
                  "h2iPdfEmbedFormat", "h2iPdfJpegQuality"})
      [] resource = "image" ->
           {"imageFormat"} \cup ParamsOf(ImageCase(operation)) \cup
           (IF operation = "multitask" THEN {"options"} ELSE {})
      [] resource = "pdf" -> ParamsOf(PdfCase(operation))
      [] resource = "tools" ->
           {"options"} \cup (IF operation = "single" THEN {"tool"} ELSE {"tools"})

OptionKeys(resource) ==
    IF resource = "image" THEN KeysOf(ImageMultitask) ELSE KeysOf(ToolsOptions)

\* the options collection c with one more key set
OneMoreKey(c, resource) ==
    UNION {{Obj((k :> v) @@ c.obj) : v \in ChoicesOf(k, OptionDefault(k))} :
               k \in OptionKeys(resource) \ DOMAIN c.obj}

\* the parameters v with one parameter changed, or one options key added
OneChange(v, resource, name) ==
    IF name = "options"
    THEN {[v EXCEPT !.options = c] : c \in OneMoreKey(v.options, resource)}
    ELSE {[v EXCEPT ![name] = c] : c \in Choices(name)}

\* the parameters of an item as the editor leaves them for an operation:
\* the declared default of every parameter the branch reads
Base(resource, operation) ==
    [name \in {"resource", "operation"} \cup ParamsRead(resource, operation)
              \cup (IF resource = "h2i" THEN {} ELSE {PropsParam(resource)}) |->
        CASE name = "resource" -> S(resource)
          [] name = "operation" -> S(operation)
          [] OTHER -> Defaults[name]]

\* base with at most n changes to the parameters the operation reads
RECURSIVE Vary(_, _, _)
Vary(resource, operation, n) ==
    IF n = 0 THEN {Base(resource, operation)}
    ELSE LET fewer == Vary(resource, operation, n - 1) IN
         fewer \cup
         UNION {OneChange(v, resource, name) :
                    v \in fewer, name \in ParamsRead(resource, operation)}

FullMeta == Obj([fileName |-> S("in.png"), mimeType |-> S("image/png")])

\* what items[itemIndex].binary holds for a property (Undef: no such property)
MetaChoices ==
    {Undef, FullMeta, Obj([mimeType |-> S("image/png")]),
     Obj([fileName |-> S(""), mimeType |-> S("image/png")]), Obj(EmptyFn)}

BinaryOf(fn) == Obj([k \in {n \in DOMAIN fn : fn[n] # Undef} |-> fn[k]])

DefaultBinary == BinaryOf([data |-> FullMeta, b |-> FullMeta])

\* items[itemIndex].binary: absent, or metadata for some of the properties
BinaryChoices == {Undef} \cup {BinaryOf(fn) : fn \in [{"data", "b"} -> MetaChoices]}

\* the values execute's run draws for the parameters that steer its flow
FlowChoices(resource) ==
    CASE resource = "h2i" -> {<<"format", S("jpeg")>>}
      [] resource = "image" ->
           {<<"imageFormat", S("jpeg")>>, <<"imageBinaryProps", Toks(<<>>)>>,
            <<"imageBinaryProps", Toks(<<"data", ",", "b">>)>>}
      [] resource = "pdf" ->
           {<<"pdfBinaryProps", Toks(<<" ", ",">>)>>,
            <<"pdfBinaryProps", Toks(<<"data", ",", "b">>)>>}
      [] resource = "tools" ->
           {<<"toolsBinaryProps", Toks(<<>>)>>, <<"tool", S("")>>}

\* the operations execute's run draws: for each resource, those its flow
\* after the request tells apart
FlowOperations(resource) ==
    CASE resource = "h2i" -> {"image", "pdf"}
      [] resource = "image" -> {"format", "metadata", "multitask"}
      [] resource = "pdf" -> {"merge"}
      [] resource = "tools" -> {"single", "multitask"}

ItemInputs ==
    UNION {UNION {
        {[p |-> Base(r, op), binary |-> DefaultBinary, buffers |-> FALSE]}
        \cup {[p |-> [Base(r, op) EXCEPT ![c[1]] = c[2]], binary |-> DefaultBinary,
               buffers |-> FALSE] :
                  c \in {x \in FlowChoices(r) : x[1] \in DOMAIN Base(r, op)}}
        : op \in FlowOperations(r)} : r \in Resources}

\* creds.baseUrl and creds.apiKey: missing, empty or set
BaseUrlChoices == {Undef, S(<<>>), S(<<"https://h", "/">>)}
ApiKeyChoices == {Undef, S(<<>>), S(<<"key">>)}

GoodCreds == [baseUrl |-> S(<<"https://h", "/">>), apiKey |-> S(<<"key">>)]

----------------------------------------------------------------------------
(* execute *)

NoReq == [none |-> TRUE]
NotReturned == [none |-> TRUE]
NoParams == [p |-> EmptyFn, binary |-> Undef]
NoLocal == [none |-> TRUE]

NoUrlReturned == "No URL returned to download."

\* what the API answers: {status?, url?, results?}
ApiResponses ==
    {Obj([status |-> S("ok"), url |-> S("https://cdn/u.png")]),
     Obj([status |-> S("ok")]),
     Obj([results |-> Arr(<<Obj([url |-> S("https://cdn/a.png")]),
                            Obj([url |-> S("https://cdn/b.png")])>>)]),
     Obj([results |-> Arr(<<Obj([url |-> S("")])>>)]),
     Obj([results |-> Arr(<<S("https://cdn/s.png")>>)])}

\* the errors helpers.request rejects with
TransportErrors == {"ECONNREFUSED", "404 - Not Found"}

\* the content-type header of a download
ContentTypes == {S("image/png")}

OutputNames == {"data", "result"}

\* throw: execute rejects, nothing is returned
Throw(e) ==
    /\ pc' = "failed"
    /\ error' = e
    /\ req' = NoReq
    /\ UNCHANGED <<creds, nItems, itemIndex, out, sent, returned>>

\* out.unshift(item); continue
PushFront(item) ==
    /\ out' = <<item>> \o out
    /\ itemIndex' = itemIndex + 1
    /\ pc' = "loop"
    /\ req' = NoReq
    /\ local' = NoLocal
    /\ UNCHANGED <<creds, nItems, error, sent, returned>>

\* out.push(item); continue
Push(item) ==
    /\ out' = Append(out, item)
    /\ itemIndex' = itemIndex + 1
    /\ pc' = "loop"
    /\ req' = NoReq
    /\ local' = NoLocal
    /\ UNCHANGED <<creds, nItems, error, sent, returned>>

\* the locals of the iteration read again after the API call
LocalsOf(p, options) ==
    [resource |-> p.resource.str, action |-> p.operation.str,
     format |-> CASE p.resource = S("h2i") ->
                       IF "format" \in DOMAIN options.body
                       THEN options.body.format ELSE Undef
                  [] p.resource = S("image") -> p.imageFormat
                  [] OTHER -> Undef]

\* helpers.request is called with r, the loop goes on without its answer
AwaitRequestDetached(inp, options, r) ==
    /\ req' = r
    /\ sent' = Append(sent, [item |-> itemIndex, method |-> r.method, url |-> r.url])
    /\ local' = LocalsOf(inp.p, options)
    /\ pc' = "loop"
    /\ itemIndex' = itemIndex + 1
    /\ UNCHANGED <<creds, nItems, out, error, returned>>

\* helpers.request is called with r, the iteration waits for its answer
AwaitRequest(inp, options, r) ==
    /\ req' = r
    /\ sent' = Append(sent, [item |-> itemIndex, method |-> r.method, url |-> r.url])
    /\ local' = LocalsOf(inp.p, options)
    /\ pc' = "awaitApi"
    /\ UNCHANGED <<creds, nItems, itemIndex, out, error, returned>>

\* the loop body, were the credentials read and checked before the branch
LoopBodyCredentialsFirst(inp, br, cerr) ==
    /\ params' = inp
    /\ response' = Undef
    /\ IF cerr # "" THEN Throw(cerr) /\ local' = NoLocal
       ELSE IF br.error # "" THEN Throw(br.error) /\ local' = NoLocal
       ELSE AwaitRequest(inp, br.options, davixRequestOptions(creds, br.options))

\* the loop body up to the await of davixRequest: br is what the branch of
\* the item came to, cerr the error of davixRequest's credential check
LoopBody(inp, br, cerr) ==
    /\ params' = inp
    /\ response' = Undef
    /\ IF br.error # "" THEN Throw(br.error) /\ local' = NoLocal
       ELSE IF cerr # "" THEN Throw(cerr) /\ local' = NoLocal
       ELSE AwaitRequest(inp, br.options, davixRequestOptions(creds, br.options))

\* the loop body, were it to read every buffer from the first input item
BeginItemFirstBuffers(inp) ==
    LoopBody(inp,
             Branch([p |-> inp.p, binary |-> inp.binary, buffers |-> inp.buffers,
                     item |-> 0, tools |-> <<>>]),
             CredentialError(creds))

\* the loop body for the item whose parameters and binary metadata are inp
BeginItem(inp) ==
    LoopBody(inp,
             Branch([p |-> inp.p, binary |-> inp.binary, buffers |-> inp.buffers,
                     item |-> itemIndex, tools |-> <<>>]),
             CredentialError(creds))

StartItem ==
    /\ pc = "loop"
    /\ itemIndex < nItems
    /\ \E inp \in ItemInputs : BeginItem(inp)

\* the parameters read after the API call, per resource
DownloadParam(resource) ==
    CASE resource = "h2i" -> "downloadBinary"
      [] resource = "image" -> "imageDownloadBinary"
      [] resource = "pdf" -> "pdfDownloadBinary"

OutputParam(resource) ==
    CASE resource = "h2i" -> "outputBinaryProperty"
      [] resource = "image" -> "imageOutputBinaryProperty"
      [] resource = "pdf" -> "pdfOutputBinaryProperty"

\* the fileName argument of downloadToBinary, were the extension of an image
\* that of the format field of the request
DownloadFileNameOfRequest(l) ==
    CASE l.resource = "h2i" ->
           IF l.action = "pdf" THEN "h2i.pdf"
           ELSE "h2i." \o (IF l.format = S("jpeg") THEN "jpg"
                           ELSE ToStr(Nullish(l.format, S("png"))))
      [] l.resource = "image" ->
           LET f == IF "format" \in DOMAIN req.formData THEN req.formData.format
                    ELSE l.format
           IN "pixlab-image." \o (IF f = S("jpeg") THEN "jpg" ELSE ToStr(f))
      [] l.resource = "pdf" -> "pixlab-pdf-result.bin"

\* the fileName argument of downloadToBinary
DownloadFileName(l) ==
    CASE l.resource = "h2i" ->
           IF l.action = "pdf" THEN "h2i.pdf"
           ELSE "h2i." \o (IF l.format = S("jpeg") THEN "jpg"
                           ELSE ToStr(Nullish(l.format, S("png"))))
      [] l.resource = "image" ->
           "pixlab-image." \o (IF l.format = S("jpeg") THEN "jpg" ELSE ToStr(l.format))
      [] l.resource = "pdf" -> "pixlab-pdf-result.bin"

\* whether the branch downloads, were it the parameter for every action
DownloadWantedAlways(l, d) == d

\* whether the branch downloads: the parameter, except for image metadata
DownloadWanted(l, d) ==
    IF l.resource = "image" /\ l.action = "metadata" THEN FALSE ELSE d

\* the request of downloadToBinary, were it made through davixRequest
DownloadRequestWithKey(url) ==
    davixRequestOptions(creds, [method |-> "GET", url |-> <<url>>,
                                encoding |-> "null", resolveWithFullResponse |-> TRUE])

\* the request of downloadToBinary
DownloadRequest(url) ==
    [method |-> "GET", url |-> url, encoding |-> "null", resolveWithFullResponse |-> TRUE]

\* the API call resolves with r; d and name are the values of the download
\* and output-property parameters, read if the branch comes to them
ApiResolves(r, d, name) ==
         /\ response' = r
         /\ IF local.resource = "tools"
            THEN Push([json |-> r]) /\ params' = NoParams
            ELSE LET wanted == DownloadWanted(local, d)
                     firstUrl == gatherFirstUrl(r)
                     readFlag == IF local.resource = "image" /\ local.action = "metadata"
                                 THEN EmptyFn
                                 ELSE (DownloadParam(local.resource) :> B(d))
                 IN IF ~wanted
                    THEN Push([json |-> r]) /\ params' = [p |-> readFlag, binary |-> Undef]
                    ELSE IF ~Truthy(firstUrl)
                    THEN /\ Throw(NoUrlReturned)
                         /\ params' = [p |-> readFlag, binary |-> Undef]
                         /\ UNCHANGED local
                    ELSE /\ params' = [p |-> (OutputParam(local.resource) :> S(name))
                                             @@ readFlag,
                                       binary |-> Undef]
                         /\ local' = [resource |-> local.resource, action |-> local.action,
                                      format |-> local.format, binName |-> name,
                                      fileName |-> DownloadFileName(local)]
                         /\ req' = DownloadRequest(ToStr(firstUrl))
                         /\ sent' = Append(sent, [item |-> itemIndex, method |-> "GET",
                                                  url |-> ToStr(firstUrl)])
                         /\ pc' = "awaitDownload"
                         /\ UNCHANGED <<creds, nItems, itemIndex, out, error, returned>>

ApiResponse ==
    /\ pc = "awaitApi"
    /\ \E r \in ApiResponses, d \in BOOLEAN, name \in OutputNames : ApiResolves(r, d, name)

\* helpers.request rejects: the same request is issued once more
ApiFailureRetried ==
    /\ pc = "awaitApi"
    /\ \E e \in TransportErrors :
         sent' = Append(sent, [item |-> itemIndex, method |-> req.method, url |-> req.url])
    /\ UNCHANGED <<creds, nItems, itemIndex, pc, params, local, req, response, out,
                   error, returned>>

\* helpers.request rejects: the error leaves execute unchanged
ApiFailure ==
    /\ pc = "awaitApi"
    /\ \E e \in TransportErrors : Throw(e)
    /\ UNCHANGED <<params, local, response>>

\* downloadToBinary resolves, the item is pushed with its binary under 'data'
DownloadResponseAsData ==
    /\ pc = "awaitDownload"
    /\ \E ct \in ContentTypes :
         Push([json |-> response,
               binary |-> [data |-> [data |-> [from |-> req.url], fileName |-> local.fileName,
                                     mimeType |-> IF Truthy(ct) THEN ct ELSE Undef]]])
    /\ UNCHANGED <<params, response>>

\* downloadToBinary resolves, prepareBinaryData wraps it, the item is pushed
DownloadResponse ==
    /\ pc = "awaitDownload"
    /\ \E ct \in ContentTypes :
         LET dl == [data |-> [from |-> req.url], fileName |-> local.fileName,
                    mimeType |-> IF Truthy(ct) THEN ct ELSE Undef]
             binary == [data |-> dl.data, fileName |-> dl.fileName,
                        mimeType |-> dl.mimeType]
         IN Push([json |-> response, binary |-> (local.binName :> binary)])
    /\ UNCHANGED <<params, response>>

\* downloadToBinary rejects, the error is kept in the item and the loop goes on
DownloadFailureContinued ==
    /\ pc = "awaitDownload"
    /\ \E e \in TransportErrors :
         /\ error' = e
         /\ out' = Append(out, [json |-> Obj([error |-> S(e)])])
         /\ itemIndex' = itemIndex + 1
         /\ pc' = "loop"
         /\ req' = NoReq
         /\ local' = NoLocal
    /\ UNCHANGED <<creds, nItems, params, response, sent, returned>>

\* downloadToBinary rejects: the error leaves execute unchanged
DownloadFailure ==
    /\ pc = "awaitDownload"
    /\ \E e \in TransportErrors : Throw(e)
    /\ UNCHANGED <<params, local, response>>

\* return [out]
Return ==
    /\ pc = "loop"
    /\ itemIndex = nItems
    /\ pc' = "done"
    /\ returned' = <<out>>
    /\ UNCHANGED <<creds, nItems, itemIndex, params, local, req, response, out, error, sent>>

Init ==
    /\ creds \in [baseUrl : BaseUrlChoices, apiKey : ApiKeyChoices]
    /\ nItems \in 0..MaxItems
    /\ itemIndex = 0
    /\ pc = "loop"
    /\ params = NoParams
    /\ local = NoLocal
    /\ req = NoReq
    /\ response = Undef
    /\ out = <<>>
    /\ error = ""
    /\ sent = <<>>
    /\ returned = NotReturned

Next ==
    \/ StartItem
    \/ ApiResponse
    \/ ApiFailure
    \/ DownloadResponse
    \/ DownloadFailure
    \/ Return

Spec == Init /\ [][Next]_vars

----------------------------------------------------------------------------
(* The request composer on its own: one item, every operation, the fields  *)
(* or the files varied                                                     *)

InitForm ==
    /\ creds = GoodCreds
    /\ nItems = 1
    /\ itemIndex = 0
    /\ pc = "loop"
    /\ params = NoParams
    /\ local = NoLocal
    /\ req = NoReq
    /\ response = Undef
    /\ out = <<>>
    /\ error = ""
    /\ sent = <<>>
    /\ returned = NotReturned

\* the loop body for an item with at most MaxChanged of the fields changed
ComposeFields ==
    /\ pc = "loop"
    /\ itemIndex < nItems
    /\ \E r \in Resources : \E op \in Operations(r) :
         \E v \in Vary(r, op, MaxChanged), h \in BOOLEAN :
            BeginItem([p |-> v, binary |-> DefaultBinary, buffers |-> h])

\* the operations the composer draws with the files varied: for each
\* resource, those that differ in the files they attach
FileOperations(resource) ==
    CASE resource = "image" -> {"format", "watermark", "metadata", "multitask"}
      [] resource = "pdf" -> {"merge", "split", "watermark"}
      [] resource = "tools" -> {"single", "multitask"}

\* the loop body for an item with the binary-property list and the input
\* binaries varied
ComposeFiles ==
    /\ pc = "loop"
    /\ itemIndex < nItems
    /\ \E r \in Resources \ {"h2i"} : \E op \in FileOperations(r) :
         \E q \in TokSeqs(MaxTokens), bin \in BinaryChoices, h \in BOOLEAN :
            BeginItem([p |-> [Base(r, op) EXCEPT ![PropsParam(r)] = Toks(q)],
                       binary |-> bin, buffers |-> h])

\* a value an editor may have left in a parameter: set, and not its default
SetValue(name) == CHOOSE c \in Choices(name) : c # Defaults[name] /\ Truthy(c)

\* the parameters of a pdf action, each left set
LeftSet(action) == [name \in ParamsOf(PdfCase(action)) |-> SetValue(name)]

\* the loop body for a pdf item that still holds, set, the parameters of
\* another pdf action (the editor hides them, the node keeps their values)
ComposePdf ==
    /\ pc = "loop"
    /\ itemIndex < nItems
    /\ \E op \in Operations("pdf") : \E other \in Operations("pdf") \ {op} :
         \E v \in Vary("pdf", op, MaxChanged) :
            BeginItem([p |-> v @@ LeftSet(other), binary |-> DefaultBinary,
                       buffers |-> FALSE])

\* the parameter naming the watermark image, for the operations that read one
WatermarkParam(resource, operation) ==
    IF resource = "image" /\ operation = "multitask" THEN "watermarkBinaryProperty"
    ELSE "watermarkImageBinaryProp"

WatermarkOperations == {<<"image", "watermark">>, <<"image", "multitask">>,
                        <<"pdf", "watermark">>}

\* the loop body for an item of an operation that takes a watermark image,
\* the property named and the input binaries varied
ComposeWatermark ==
    /\ pc = "loop"
    /\ itemIndex < nItems
    /\ \E o \in WatermarkOperations :
         \E w \in {S(""), S("data"), S("b")}, bin \in BinaryChoices, h \in BOOLEAN :
            BeginItem([p |-> [Base(o[1], o[2]) EXCEPT ![WatermarkParam(o[1], o[2])] = w],
                       binary |-> bin, buffers |-> h])

NextForm == ComposeFields \/ ComposeFiles \/ ComposePdf \/ ComposeWatermark

SpecForm == InitForm /\ [][NextForm]_vars

----------------------------------------------------------------------------
(* davixRequest on its own: one call, with the options a caller may pass   *)
(* and the credentials the host may hold                                   *)

\* creds.baseUrl of a call: missing, empty, slashes only, with and without
\* trailing slashes, with a path of its own
CallBaseUrls ==
    {Undef, S(<<>>), S(<<"/">>), S(<<"/", "/">>), S(<<"https://h">>),
     S(<<"https://h", "/">>), S(<<"https://h", "/", "/">>),
     S(<<"https://h", "/", "api">>), S(<<"https://h", "/", "api", "/">>)}

\* options.url of a call
CallPaths == {<<>>, <<"/">>, <<"v1", "/", "x">>, <<"/", "v1", "/", "x">>}

\* options.headers of a call (Undef: none)
CallHeaders ==
    {Undef, Obj(EmptyFn), Obj("x-api-key" :> "caller"), Obj("accept" :> "text/plain"),
     Obj(("x-api-key" :> "caller") @@ ("accept" :> "text/plain"))}

\* the options a caller passes to davixRequest
CallerOptions ==
    {[method |-> m, url |-> u, json |-> TRUE]
        @@ (IF IsObj(h) THEN [headers |-> h.obj] ELSE EmptyFn)
        @@ (IF b THEN [body |-> [action |-> S("image")]] ELSE EmptyFn) :
        m \in {"POST", "GET"}, u \in CallPaths, h \in CallHeaders, b \in BOOLEAN}

InitCall ==
    /\ creds \in [baseUrl : CallBaseUrls, apiKey : ApiKeyChoices]
    /\ nItems = 1
    /\ itemIndex = 0
    /\ pc = "loop"
    /\ params = NoParams
    /\ local = NoLocal
    /\ req = NoReq
    /\ response = Undef
    /\ out = <<>>
    /\ error = ""
    /\ sent = <<>>
    /\ returned = NotReturned

\* davixRequest up to its await of helpers.request
CallDavixRequest ==
    /\ pc = "loop"
    /\ \E options \in CallerOptions :
         /\ params' = [options |-> options]
         /\ IF CredentialError(creds) # ""
            THEN Throw(CredentialError(creds)) /\ UNCHANGED <<local, response>>
            ELSE /\ req' = davixRequestOptions(creds, options)
                 /\ sent' = Append(sent, [item |-> itemIndex, method |-> options.method,
                                          url |-> req'.url])
                 /\ pc' = "awaitApi"
                 /\ UNCHANGED <<creds, nItems, itemIndex, local, response, out, error,
                                returned>>

\* helpers.request resolves: davixRequest returns what it resolved with
CallResolves ==
    /\ pc = "awaitApi"
    /\ \E r \in ApiResponses :
         /\ response' = r
         /\ returned' = r
         /\ pc' = "done"
         /\ req' = NoReq
         /\ UNCHANGED <<creds, nItems, itemIndex, params, local, out, error, sent>>

\* helpers.request rejects: davixRequest rejects with the same error
CallRejects ==
    /\ pc = "awaitApi"
    /\ \E e \in TransportErrors : Throw(e)
    /\ UNCHANGED <<params, local, response>>

NextCall == CallDavixRequest \/ CallResolves \/ CallRejects

SpecCall == InitCall /\ [][NextCall]_vars

----------------------------------------------------------------------------
(* The download after the API call on its own: one item of a resource that *)
(* downloads, whatever the API answers                                     *)

\* response.url: missing, a string (empty or not), not a string
UrlChoices == {Undef, S(""), S("https://cdn/u.png"), Int(5)}

\* an element of response.results
ResultChoices ==
    {Obj([url |-> S("")]), Obj([url |-> S("https://cdn/a.png")]),
     Obj([url |-> S("https://cdn/b.png")]), Obj(EmptyFn), S("https://cdn/s.png"),
     S(""), Undef}

\* the sequences of at most n elements of results
RECURSIVE ResultSeqs(_)
ResultSeqs(n) ==
    IF n = 0 THEN {<<>>}
    ELSE LET shorter == ResultSeqs(n - 1) IN
         shorter \cup {Append(q, c) : q \in shorter, c \in ResultChoices}

\* the bodies the API may answer with
UrlResponses ==
    {Obj((IF IsUndef(u) THEN EmptyFn ELSE [url |-> u])
         @@ (IF IsUndef(rs) THEN EmptyFn ELSE [results |-> rs])) :
        u \in UrlChoices,
        rs \in {Undef, S("none")} \cup {Arr(q) : q \in ResultSeqs(MaxResults)}}

\* the credential records of the run
DownloadCreds ==
    {GoodCreds, [baseUrl |-> S(<<"https://other">>), apiKey |-> S(<<"key2">>)]}

InitDownload ==
    /\ creds \in DownloadCreds
    /\ nItems = 1
    /\ itemIndex = 0
    /\ pc = "loop"
    /\ params = NoParams
    /\ local = NoLocal
    /\ req = NoReq
    /\ response = Undef
    /\ out = <<>>
    /\ error = ""
    /\ sent = <<>>
    /\ returned = NotReturned

\* the loop body for an item of a resource that downloads
StartDownload ==
    /\ pc = "loop"
    /\ itemIndex < nItems
    /\ \E r \in {"h2i", "image", "pdf"} :
         BeginItem([p |-> Base(r, CHOOSE op \in FlowOperations(r) : TRUE),
                    binary |-> DefaultBinary, buffers |-> FALSE])

\* the API call resolves with any body
ApiAnswer ==
    /\ pc = "awaitApi"
    /\ \E r \in UrlResponses, d \in BOOLEAN : ApiResolves(r, d, "data")

NextDownload ==
    \/ StartDownload
    \/ ApiAnswer
    \/ DownloadResponse
    \/ DownloadFailure
    \/ Return

SpecDownload == InitDownload /\ [][NextDownload]_vars

----------------------------------------------------------------------------
(* The download of every operation: one item, its output format varied     *)

\* the format options of image multitask
MultitaskFormats == {S("webp"), S("jpeg"), S("png")}

\* the items drawn: every operation of the resources that download, with
\* each value of the parameter that names the output format
NamedInputs ==
    {Base("h2i", "pdf")}
    \cup {[Base("h2i", "image") EXCEPT !.format = f] : f \in Choices("format")}
    \cup {[Base("image", op) EXCEPT !.imageFormat = f] :
              op \in Operations("image"), f \in Choices("imageFormat")}
    \cup {[Base("image", "multitask") EXCEPT !.imageFormat = f,
                                             !.options = Obj([format |-> g])] :
              f \in Choices("imageFormat"), g \in MultitaskFormats}
    \cup {Base("pdf", op) : op \in Operations("pdf")}

StartNamed ==
    /\ pc = "loop"
    /\ itemIndex < nItems
    /\ \E v \in NamedInputs :
         BeginItem([p |-> v, binary |-> DefaultBinary, buffers |-> FALSE])

NextNamed ==
    \/ StartNamed
    \/ ApiResponse
    \/ DownloadResponse
    \/ DownloadFailure
    \/ Return

SpecNamed == InitForm /\ [][NextNamed]_vars

----------------------------------------------------------------------------
(* The grouped multitask layout of the image branch: the selected actions  *)
(* each bring a parameter group, combined by setters that write a field    *)
(* once                                                                    *)

NumOnce(field, key) == [k |-> "num", field |-> field, param |-> key]
StrOnce(field, key) == [k |-> "str", field |-> field, param |-> key]
BoolOnce(field, key) == [k |-> "bool", field |-> field, param |-> key]

\* the options of the parameter 'actions', in declaration order
GroupedActions ==
    <<"format", "resize", "crop", "transform", "compress", "enhance", "frame",
      "background", "watermark">>

\* switch (a) of the loop over the selected actions
GroupedCase(a) ==
    CASE a = "format" ->
           <<NumOnce("width", "formatWidthMulti"), NumOnce("height", "formatHeightMulti")>>
      [] a = "resize" ->
           <<NumOnce("width", "resizeWidthMulti"), NumOnce("height", "resizeHeightMulti"),
             BoolOnce("enlarge", "resizeEnlargeMulti"),
             BoolOnce("normalizeOrientation", "resizeNormalizeOrientationMulti")>>
      [] a = "crop" ->
           <<NumOnce("cropX", "cropXMulti"), NumOnce("cropY", "cropYMulti"),
             NumOnce("cropWidth", "cropWidthMulti"),
             NumOnce("cropHeight", "cropHeightMulti"),
             BoolOnce("normalizeOrientation", "cropNormalizeOrientationMulti"),
             StrOnce("backgroundColor", "cropBackgroundColorMulti")>>
      [] a = "transform" ->
           <<NumOnce("rotate", "transformRotateMulti"),
             BoolOnce("flipH", "transformFlipHMulti"),
             BoolOnce("flipV", "transformFlipVMulti"),
             StrOnce("colorSpace", "transformColorSpaceMulti")>>
      [] a = "compress" ->
           <<NumOnce("quality", "compressQualityMulti"),
             NumOnce("targetSizeKB", "compressTargetSizeKBMulti"),
             StrOnce("backgroundColor", "compressBackgroundColorMulti"),
             StrOnce("colorSpace", "compressColorSpaceMulti")>>
      [] a = "enhance" ->
           <<NumOnce("blur", "enhanceBlurMulti"), NumOnce("sharpen", "enhanceSharpenMulti"),
             BoolOnce("grayscale", "enhanceGrayscaleMulti"),
             BoolOnce("sepia", "enhanceSepiaMulti"),
             NumOnce("brightness", "enhanceBrightnessMulti"),
             NumOnce("contrast", "enhanceContrastMulti"),
             NumOnce("saturation", "enhanceSaturationMulti"),
             BoolOnce("normalizeOrientation", "enhanceNormalizeOrientationMulti")>>
      [] a = "frame" ->
           <<NumOnce("pad", "framePadMulti"), StrOnce("padColor", "framePadColorMulti"),
             NumOnce("border", "frameBorderMulti"),
             StrOnce("borderColor", "frameBorderColorMulti"),
             NumOnce("borderRadius", "frameBorderRadiusMulti")>>
      [] a = "background" ->
           <<StrOnce("backgroundColor", "backgroundColorMulti"),
             NumOnce("backgroundBlur", "backgroundBlurMulti"),
             NumOnce("borderRadius", "backgroundBorderRadiusMulti"),
             StrOnce("padColor", "backgroundPadColorMulti")>>
      [] a = "watermark" ->
           <<StrOnce("watermarkText", "watermarkTextMulti"),
             NumOnce("watermarkOpacity", "watermarkOpacityMulti"),
             [k |-> "pos", field |-> "watermarkPosition",
              param |-> "watermarkPositionMulti"],
             NumOnce("watermarkMargin", "watermarkMarginMulti"),
             NumOnce("watermarkScale", "watermarkScaleMulti"),
             StrOnce("watermarkColor", "watermarkColorMulti"),
             NumOnce("watermarkFontSize", "watermarkFontSizeMulti"),
             [k |-> "wmfile", field |-> "watermarkImage",
              param |-> "watermarkImageBinaryProperty"]>>
      [] OTHER -> <<>>

\* formData[name] === undefined
Unset(form, name) == name \notin DOMAIN form \/ form[name] = Undef

\* setNumberOnce, setStringOnce, setBoolOnce: formData after the call
setNumberOnce(form, name, value) ==
    IF Unset(form, name) THEN setNumber(name, value) @@ form ELSE form

setStringOnce(form, name, value) ==
    IF Unset(form, name) THEN setStringPdf(name, value) @@ form ELSE form

setBoolOnce(form, name, value) ==
    IF ~IsUndef(value) /\ Unset(form, name) THEN setBool(name, value) @@ form ELSE form

\* formData after one statement of a case ran on the parameter group group
ExecOnce(form, st, group, item, binary) ==
    LET v == Get(group, st.param) IN
    CASE st.k = "num" -> setNumberOnce(form, st.field, ToNumber(Nullish(v, Int(0))))
      [] st.k = "str" -> setStringOnce(form, st.field, S(ToStr(Nullish(v, S("")))))
      [] st.k = "bool" -> setBoolOnce(form, st.field, ToBoolean(v))
      [] st.k = "pos" -> IF Unset(form, st.field) THEN Put(form, st.field, v) ELSE form
      [] st.k = "wmfile" ->
           attachSingleFile(st.field, S(ToStr(Nullish(v, S("")))), item, binary) @@ form

RECURSIVE RunOnce(_, _, _, _, _)
RunOnce(form, stmts, group, item, binary) ==
    IF stmts = <<>> THEN form
    ELSE RunOnce(ExecOnce(form, Head(stmts), group, item, binary), Tail(stmts),
                 group, item, binary)

\* getNodeParameter('imageActionParams.<a>', itemIndex, {}) || {}
ActionParams(p, a) ==
    IF Truthy(Get(p.imageActionParams, a)) THEN Get(p.imageActionParams, a)
    ELSE Obj(EmptyFn)

\* for (const a of selectedActions) switch (a) ...
RECURSIVE RunActions(_, _, _, _, _)
RunActions(form, actions, p, item, binary) ==
    IF actions = <<>> THEN form
    ELSE RunActions(RunOnce(form, GroupedCase(ToStr(Head(actions))),
                            ActionParams(p, ToStr(Head(actions))), item, binary),
                    Tail(actions), p, item, binary)

\* whether the watermark action fails in getBinaryDataBuffer
WatermarkFails(inp) ==
    LET name == ToStr(Nullish(Get(ActionParams(inp.p, "watermark"),
                                  "watermarkImageBinaryProperty"), S("")))
    IN /\ \E i \in DOMAIN inp.p.actions.arr : inp.p.actions.arr[i] = S("watermark")
       /\ name # ""
       /\ ~HasBuffer(inp.binary, inp.buffers, name)

NoActionSelected == "Select at least one action for multitask."

\* the image branch for operation multitask, grouped layout
GroupedBranch(inp) ==
    LET p == inp.p
        att == attachFiles("images", p.imageBinaryProps.toks,
                           [action |-> p.operation], inp.item, inp.binary, inp.buffers)
    IN IF att.error # "" THEN [error |-> att.error, options |-> Undef]
       ELSE IF p.actions.arr = <<>> THEN [error |-> NoActionSelected, options |-> Undef]
       ELSE IF WatermarkFails(inp) THEN [error |-> NoBinaryData, options |-> Undef]
       ELSE [error |-> "",
             options |->
                 MultipartOptions(PathImage,
                     RunActions(
                         setBoolOnce(setStringOnce(att.form, "format", p.multitaskFormat),
                                     "keepMetadata", p.multitaskKeepMetadata),
                         p.actions.arr, p, inp.item, inp.binary))]

\* the position of an action among the options of 'actions'
Rank(a) == CHOOSE i \in DOMAIN GroupedActions : GroupedActions[i] = a

\* a parameter group as the editor fills it: every value set (numbers and
\* strings telling the action), or every value cleared
GroupSet(a) ==
    LET stmts == GroupedCase(a) IN
    Obj([key \in {stmts[i].param : i \in DOMAIN stmts} |->
            LET st == stmts[CHOOSE i \in DOMAIN stmts : stmts[i].param = key] IN
            CASE st.k = "num" -> Int(Rank(a))
              [] st.k = "str" -> S(a)
              [] st.k = "bool" -> B(TRUE)
              [] st.k = "pos" -> S("top-left")
              [] st.k = "wmfile" -> S("data")])

GroupCleared(a) ==
    LET stmts == GroupedCase(a) IN
    Obj([key \in {stmts[i].param : i \in DOMAIN stmts} |->
            LET st == stmts[CHOOSE i \in DOMAIN stmts : stmts[i].param = key] IN
            CASE st.k = "num" -> Int(0)
              [] st.k = "str" -> S("")
              [] st.k = "bool" -> B(FALSE)
              [] st.k = "pos" -> S("center")
              [] st.k = "wmfile" -> S("")])

\* the selections of at most n distinct actions, in the order selected
RECURSIVE ActionSeqs(_)
ActionSeqs(n) ==
    IF n = 0 THEN {<<>>}
    ELSE LET shorter == ActionSeqs(n - 1) IN
         shorter \cup
         UNION {{Append(q, S(GroupedActions[i])) :
                    i \in {j \in DOMAIN GroupedActions :
                              \A k \in DOMAIN q : q[k] # S(GroupedActions[j])}} :
                q \in shorter}

\* the parameters of a grouped multitask item: the actions selected and,
\* for each, its group set, cleared or not added (absent)
GroupedParams(actions, groups) ==
    [resource |-> S("image"), operation |-> S("multitask"),
     imageBinaryProps |-> Toks(<<"data">>), imageFormat |-> S("webp"),
     actions |-> Arr(actions), multitaskFormat |-> S("webp"),
     multitaskKeepMetadata |-> B(FALSE),
     imageActionParams |->
         Obj([a \in {b \in DOMAIN groups : groups[b] # "absent"} |->
                 IF groups[a] = "set" THEN GroupSet(a) ELSE GroupCleared(a)])]

\* the loop body for a grouped multitask item
BeginGrouped(inp) ==
    LoopBody(inp,
             GroupedBranch([p |-> inp.p, binary |-> inp.binary, buffers |-> inp.buffers,
                            item |-> itemIndex]),
             CredentialError(creds))

ComposeGrouped ==
    /\ pc = "loop"
    /\ itemIndex < nItems
    /\ \E actions \in ActionSeqs(MaxActions) :
         \E groups \in [{actions[i].str : i \in DOMAIN actions} ->
                           {"absent", "set", "cleared"}] :
            BeginGrouped([p |-> GroupedParams(actions, groups),
                          binary |-> DefaultBinary, buffers |-> FALSE])

NextGrouped == ComposeGrouped

SpecGrouped == InitForm /\ [][NextGrouped]_vars

----------------------------------------------------------------------------
(* What the properties below read off a state                              *)

\* the item of the step just taken has the parameters of a resource
ItemOf(resource) ==
    "resource" \in DOMAIN params.p /\ params.p.resource = S(resource)

\* the API request of the current item is in flight
Requested == pc = "awaitApi"

\* the binary-property list of the current item, and the names it lists
PropList == params.p[PropsParam(params.p.resource.str)].toks
Listed == PropNames(PropList)

\* the multipart field the input files of the current item go under
FileField == IF ItemOf("pdf") THEN "files" ELSE "images"

\* the download requests issued for item k
Gets(k) == {i \in DOMAIN sent : sent[i].item = k /\ sent[i].method = "GET"}

\* the step just taken read a download flag that was on
DownloadAsked ==
    \E n \in {"downloadBinary", "imageDownloadBinary", "pdfDownloadBinary"} :
        n \in DOMAIN params.p /\ params.p[n] = B(TRUE)

\* v is a non-empty string
NonEmptyStr(v) == IsStr(v) /\ v.str # ""

\* no string url in the response and no results element with a non-empty url
NoUrlNorResultUrl(r) ==
    /\ ~IsStr(Get(r, "url"))
    /\ IsArr(Get(r, "results")) =>
         \A i \in DOMAIN r.obj.results.arr : ~Truthy(Get(r.obj.results.arr[i], "url"))

\* no element of results is itself a non-empty string
NoResultString(r) ==
    IsArr(Get(r, "results")) =>
        \A i \in DOMAIN r.obj.results.arr : ~NonEmptyStr(r.obj.results.arr[i])

\* the item failed on the missing URL: no download, no output for it
FailedNoUrl ==
    /\ pc = "failed"
    /\ error = "No URL returned to download."
    /\ Gets(itemIndex) = {}
    /\ Len(out) = itemIndex

----------------------------------------------------------------------------
(* The claims                                                              *)

\* the credential record lacks the base URL or the API key
MissingCredentials ==
    creds.baseUrl \in {Undef, S(<<>>)} \/ creds.apiKey \in {Undef, S(<<>>)}

ConfigurationErrors ==
    {"Missing Base URL in credentials.", "Missing API Key in credentials."}

C2_NoUrlNoDownload ==
    DownloadAsked /\ response # Undef /\ NoUrlNorResultUrl(response) => FailedNoUrl

\* C2, amended: with download on, a response with no string url, no results
\* element with a non-empty url and no results element that is itself a
\* non-empty string fails the item with 'No URL returned to download.'; no
\* download request is issued and no output item is appended for it.
C2_NoUrlNoStringNoDownload ==
    DownloadAsked /\ response # Undef /\ NoUrlNorResultUrl(response)
                  /\ NoResultString(response) => FailedNoUrl

\* a download was asked for a response whose only result has an empty url
C2_Witness ==
    /\ DownloadAsked
    /\ response = Obj([results |-> Arr(<<Obj([url |-> S("")])>>)])
    /\ FailedNoUrl

\* the response carries several results, each with a url, and no url of its own
MultiResult(r) ==
    /\ ~IsStr(Get(r, "url"))
    /\ IsArr(Get(r, "results"))
    /\ Len(r.obj.results.arr) >= 2
    /\ \A i \in DOMAIN r.obj.results.arr : NonEmptyStr(Get(r.obj.results.arr[i], "url"))

\* the item the response in hand belongs to
ResponseItem == IF pc \in {"loop", "done"} THEN itemIndex - 1 ELSE itemIndex

\* C3: when download is on and the response carries several result URLs,
\* exactly one download request is issued for the item, for the url of the
\* first result; no item ever has a second download request.
C3_FirstUrlOnly ==
    /\ \A k \in 0..nItems : Cardinality(Gets(k)) <= 1
    /\ DownloadAsked /\ response # Undef /\ MultiResult(response) =>
         /\ Cardinality(Gets(ResponseItem)) = 1
         /\ \A i \in Gets(ResponseItem) :
                sent[i].url = response.obj.results.arr[1].obj.url.str
         /\ pc = "awaitDownload" =>
                req.method = "GET" /\ req.url = response.obj.results.arr[1].obj.url.str

\* an item answered with two results was output with its one download
C3_Witness ==
    /\ pc = "loop" /\ Len(out) = 1
    /\ DownloadAsked /\ MultiResult(response)
    /\ "binary" \in DOMAIN out[1]
    /\ sent[Len(sent)] = [item |-> 0, method |-> "GET", url |-> "https://cdn/a.png"]

\* items[itemIndex].binary?.[name] of the current item
Meta(name) == Get(params.binary, name)

HasMeta(name, key) == IsObj(Meta(name)) /\ key \in DOMAIN Meta(name).obj

\* C4: for image, pdf and tools items a binary-property list naming N
\* properties gives exactly N file parts under the file field, in the order
\* listed; each carries the buffer of its property, the fileName and
\* mimeType of the input binary where it has them, and the file name
\* '<fieldName>-<propertyName>' where it has no fileName.
C4_OnePartPerName ==
    Requested /\ ~ItemOf("h2i") =>
        LET parts == req.formData[FileField].arr IN
        /\ Len(parts) = Len(Listed)
        /\ \A i \in DOMAIN parts :
             /\ parts[i].value = [item |-> itemIndex, property |-> Listed[i]]
             /\ parts[i].filename =
                    IF HasMeta(Listed[i], "fileName") THEN Meta(Listed[i]).obj.fileName
                    ELSE S(FileField \o "-" \o Listed[i])
             /\ parts[i].contentType =
                    IF HasMeta(Listed[i], "mimeType") THEN Meta(Listed[i]).obj.mimeType
                    ELSE Undef

\* a tools item listing data and b, b without a fileName of its own
C4_Witness ==
    /\ Requested /\ ItemOf("tools")
    /\ Listed = <<"data", "b">>
    /\ req.formData.images.arr[1].filename = S("in.png")
    /\ req.formData.images.arr[2].filename = S("images-b")
    /\ req.formData.images.arr[2].contentType = S("image/png")

\* the binary-property list holds nothing but commas and blanks
BlankList == \A i \in DOMAIN PropList : PropList[i] \in {",", " "}

\* C5: an image, pdf or tools item whose binary-property list holds no
\* non-blank name fails with 'No binary property names provided.', and no
\* HTTP request is issued for it.
C5_BlankListRefused ==
    "resource" \in DOMAIN params.p /\ ~ItemOf("h2i") /\ BlankList =>
        /\ pc = "failed"
        /\ error = "No binary property names provided."
        /\ sent = <<>> /\ req = NoReq

\* an image item whose list is ' , ' was refused
C5_Witness ==
    /\ ItemOf("image")
    /\ PropList = <<" ", ",", " ">>
    /\ pc = "failed" /\ error = "No binary property names provided."

\* C6: the request of an h2i item with operation image is a POST to /v1/h2i
\* whose JSON body has exactly the keys action, html, css, width, height and
\* format, each with the value of its parameter, and no form data.
C6_H2iImageBody ==
    Requested /\ ItemOf("h2i") /\ params.p.operation = S("image") =>
        /\ req.method = "POST"
        /\ req.url = "https://h/v1/h2i"
        /\ "formData" \notin DOMAIN req
        /\ DOMAIN req.body = {"action", "html", "css", "width", "height", "format"}
        /\ req.body.action = S("image")
        /\ \A k \in {"html", "css", "width", "height", "format"} :
               req.body[k] = params.p[k]

\* an h2i image item with html set and every other parameter at its default
C6_Witness ==
    /\ Requested /\ ItemOf("h2i") /\ params.p.operation = S("image")
    /\ params.p.html = S("x")
    /\ req.body = [action |-> S("image"), html |-> S("x"), css |-> S(""),
                   width |-> Int(1000), height |-> Int(1500), format |-> S("png")]

\* the statements of the current item's operation
CaseOf ==
    CASE ItemOf("image") -> ImageCase(params.p.operation.str)
      [] ItemOf("pdf") -> PdfCase(params.p.operation.str)
      [] OTHER -> <<>>

\* the numeric fields of the current item's request, each with the
\* parameter it is read from: <<field, parameter>>
NumericFields ==
    IF ItemOf("h2i")
    THEN {<<"width", "width">>, <<"height", "height">>} \cup
         (IF params.p.operation = S("pdf")
          THEN {<<"pdfMargin", "h2iPdfMargin">>, <<"pdfJpegQuality", "h2iPdfJpegQuality">>}
          ELSE {})
    ELSE {<<CaseOf[i].field, CaseOf[i].param>> :
              i \in {j \in DOMAIN CaseOf : CaseOf[j].k = "num"}}

\* C7 as the specification states it: a numeric field whose value equals
\* its declared default is absent from the request.  Refuted: the numbers of
\* the h2i body are always sent, and a form field with a default other than
\* 0 (quality 82, dpi 150, ...) is sent at its default.
C7_DefaultAbsent ==
    Requested =>
        \A fp \in NumericFields :
            params.p[fp[2]] = Defaults[fp[2]] =>
                fp[1] \notin DOMAIN (IF ItemOf("h2i") THEN req.body ELSE req.formData)

\* C7, amended: a numeric field of a multipart form is absent from the
\* request exactly when its value is 0, so at its declared default only
\* when that default is 0; the numeric fields of the h2i JSON body are
\* always present, with the value of their parameter.
C7_ZeroAbsent ==
    Requested =>
        \A fp \in NumericFields :
            IF ItemOf("h2i")
            THEN fp[1] \in DOMAIN req.body /\ req.body[fp[1]] = params.p[fp[2]]
            ELSE fp[1] \notin DOMAIN req.formData <=> params.p[fp[2]] = Int(0)

\* an image compress item at its defaults: quality 82 is sent, targetSizeKB 0 is not
C7_Witness ==
    /\ Requested /\ ItemOf("image") /\ params.p.operation = S("compress")
    /\ params.p.quality = Defaults.quality /\ params.p.targetSizeKB = Int(0)
    /\ req.formData.quality = S("82")
    /\ "targetSizeKB" \notin DOMAIN req.formData

BoolFlags ==
    {"keepMetadata", "enlarge", "normalizeOrientation", "flipH", "flipV", "grayscale",
     "sepia", "includeRawExif", "sortByName", "cleanAllMetadata", "flattenForms"}

\* C8 as the specification states it: every boolean flag of a multipart
\* form is 'true' when its parameter is true and 'false' when it is false,
\* and holds no other value.  Refuted: a parameter that resolves to a
\* string is put in the form as that string.
C8_TrueOrFalse ==
    Requested /\ ~ItemOf("h2i") =>
        /\ \A f \in BoolFlags \cap DOMAIN req.formData :
               req.formData[f] \in {S("true"), S("false")}
        /\ \A i \in {j \in DOMAIN CaseOf : CaseOf[j].k = "bool"} :
               /\ params.p[CaseOf[i].param] = B(TRUE) =>
                      req.formData[CaseOf[i].field] = S("true")
               /\ params.p[CaseOf[i].param] = B(FALSE) =>
                      req.formData[CaseOf[i].field] = S("false")

\* C9: every API request is a POST to the path of the item's resource:
\* /v1/h2i with a JSON body and no form data for h2i, /v1/image, /v1/pdf and
\* /v1/tools with form data and no body for the others; nothing else is
\* requested on the base URL.
C9_PostToResourcePath ==
    /\ \A i \in DOMAIN sent :
           /\ sent[i].method = "POST"
           /\ sent[i].url \in {"https://h/v1/h2i", "https://h/v1/image",
                               "https://h/v1/pdf", "https://h/v1/tools"}
    /\ Requested =>
           /\ req.method = "POST"
           /\ req.url = CASE ItemOf("h2i") -> "https://h/v1/h2i"
                          [] ItemOf("image") -> "https://h/v1/image"
                          [] ItemOf("pdf") -> "https://h/v1/pdf"
                          [] ItemOf("tools") -> "https://h/v1/tools"
           /\ sent = <<[item |-> itemIndex, method |-> req.method, url |-> req.url]>>
           /\ IF ItemOf("h2i")
              THEN "body" \in DOMAIN req /\ "formData" \notin DOMAIN req
              ELSE "formData" \in DOMAIN req /\ "body" \notin DOMAIN req

\* a tools item was posted to /v1/tools as a form
C9_Witness ==
    /\ Requested /\ ItemOf("tools")
    /\ req.method = "POST" /\ req.url = "https://h/v1/tools"
    /\ "formData" \in DOMAIN req

\* C10: a multipart request carries its input files under 'files' for a pdf
\* item and under 'images' for an image or tools item, never under both,
\* and every listed binary property is attached under that field.
C10_FileFieldByResource ==
    Requested /\ ~ItemOf("h2i") =>
        /\ IF ItemOf("pdf")
           THEN "files" \in DOMAIN req.formData /\ "images" \notin DOMAIN req.formData
           ELSE "images" \in DOMAIN req.formData /\ "files" \notin DOMAIN req.formData
        /\ \A i \in DOMAIN Listed :
               \E j \in DOMAIN req.formData[FileField].arr :
                   req.formData[FileField].arr[j].value.property = Listed[i]

\* a pdf item listing b and data carries both under 'files'
C10_Witness ==
    /\ Requested /\ ItemOf("pdf")
    /\ PropList = <<"b", ",", "data">>
    /\ Len(req.formData.files.arr) = 2
    /\ "images" \notin DOMAIN req.formData

\* the options davixRequest was called with
Called == pc = "awaitApi" /\ "options" \in DOMAIN params

CallerHeaders ==
    IF "headers" \in DOMAIN params.options THEN params.options.headers ELSE EmptyFn

\* C11: every request sent through davixRequest has for URL the configured
\* base URL (less a trailing slash) followed by the request path (with a
\* leading slash), and an x-api-key header holding the credential's API key,
\* whatever x-api-key the caller passed; the caller's other headers and
\* options are kept as they were.
C11_UrlAndApiKey ==
    Called =>
        LET b == creds.baseUrl.str
            path == params.options.url
            base == IF b[Len(b)] = "/" THEN SubSeq(b, 1, Len(b) - 1) ELSE b
            slashed == IF path # <<>> /\ path[1] = "/" THEN path ELSE <<"/">> \o path
        IN /\ req.url = Join(base) \o Join(slashed)
           /\ DOMAIN req.headers = DOMAIN CallerHeaders \cup {"x-api-key"}
           /\ req.headers["x-api-key"] = Join(creds.apiKey.str)
           /\ \A h \in DOMAIN CallerHeaders \ {"x-api-key"} :
                  req.headers[h] = CallerHeaders[h]
           /\ DOMAIN req = DOMAIN params.options \cup {"url", "headers"}
           /\ \A k \in DOMAIN params.options \ {"url", "headers"} :
                  req[k] = params.options[k]
           /\ sent = <<[item |-> 0, method |-> req.method, url |-> req.url]>>

\* a call that passed an x-api-key and an accept header of its own
C11_Witness ==
    /\ Called
    /\ creds = [baseUrl |-> S(<<"https://h", "/", "api">>), apiKey |-> S(<<"key">>)]
    /\ params.options.url = <<"v1", "/", "x">>
    /\ CallerHeaders = ("x-api-key" :> "caller") @@ ("accept" :> "text/plain")
    /\ req.url = "https://h/api/v1/x"
    /\ req.headers = ("x-api-key" :> "key") @@ ("accept" :> "text/plain")

\* C12: when execute returns, its output list has one item per input item,
\* and the k-th of them was built from the API response of the k-th input
\* item: each iteration that ends adds its item, holding the response it
\* received, after the items of the iterations before it, which stay as
\* they were; and what is returned is that list, once it has an item per
\* input item.
C12_OneOutputPerItemInOrder ==
    [][/\ pc' = "loop" =>
            /\ Len(out) = itemIndex
            /\ itemIndex' = itemIndex + 1
            /\ Len(out') = itemIndex'
            /\ SubSeq(out', 1, itemIndex) = out
            /\ out'[itemIndex'].json = response'
       /\ pc' = "done" =>
            /\ out' = out
            /\ Len(out) = nItems
            /\ returned' = <<out>>]_vars

\* execute returned two items built from two different responses
C12_Witness ==
    /\ pc = "done"
    /\ nItems = 2
    /\ Len(returned[1]) = 2
    /\ returned[1][1].json = Obj([status |-> S("ok"), url |-> S("https://cdn/u.png")])
    /\ returned[1][2].json = Obj([status |-> S("ok")])
    /\ "binary" \in DOMAIN returned[1][1]

\* a request is in flight
InFlight == req # NoReq

\* C13: at most one HTTP request is in flight at any time. A request is in
\* flight only while the iteration of its item waits for it, and it is the
\* last one issued. While the API request of item k is in flight every
\* request issued before it was for an earlier item, each earlier item has
\* its output appended and no response of item k has arrived. While the
\* download of item k is in flight it follows the API request of item k,
\* whose response has arrived, and the outputs are those of the earlier
\* items.
C13_OneRequestInFlight ==
    /\ InFlight <=> pc \in {"awaitApi", "awaitDownload"}
    /\ InFlight =>
          /\ sent # <<>>
          /\ sent[Len(sent)] = [item |-> itemIndex, method |-> req.method, url |-> req.url]
          /\ Len(out) = itemIndex
    /\ pc = "awaitApi" =>
          /\ req.method = "POST"
          /\ response = Undef
          /\ \A i \in 1..(Len(sent) - 1) : sent[i].item < itemIndex
    /\ pc = "awaitDownload" =>
          /\ req.method = "GET"
          /\ response # Undef
          /\ Len(sent) >= 2
          /\ sent[Len(sent) - 1].item = itemIndex
          /\ sent[Len(sent) - 1].method = "POST"
          /\ \A i \in 1..(Len(sent) - 2) : sent[i].item < itemIndex

\* the download of the second item is in flight, after the API request and
\* the download of the first and the API request of the second
C13_Witness ==
    /\ pc = "awaitDownload"
    /\ itemIndex = 1
    /\ Len(out) = 1
    /\ Len(sent) = 4
    /\ [i \in 1..4 |-> <<sent[i].item, sent[i].method>>] =
           <<<<0, "POST">>, <<0, "GET">>, <<1, "POST">>, <<1, "GET">>>>

\* the API requests issued for item k
Posts(k) == {i \in DOMAIN sent : sent[i].item = k /\ sent[i].method = "POST"}

\* C14: nothing is retried: each input item causes at most one API request
\* and at most one download request, whether or not those requests fail.
C14_NothingRetried ==
    \A k \in 0..(nItems - 1) :
        /\ Cardinality(Posts(k)) <= 1
        /\ Cardinality(Gets(k)) <= 1
        /\ Cardinality({i \in DOMAIN sent : sent[i].item = k}) =
               Cardinality(Posts(k)) + Cardinality(Gets(k))

\* the download of the second item failed: each item had one API request
\* and one download
C14_Witness ==
    /\ pc = "failed"
    /\ error \in TransportErrors
    /\ itemIndex = 1
    /\ Len(sent) = 4
    /\ Cardinality(Posts(1)) = 1
    /\ Cardinality(Gets(1)) = 1

\* execute has thrown
Failed == pc = "failed"

\* C15: if the API request or the download of item k fails, execute fails
\* with that error: once an error is raised execute has failed and takes no
\* further step, so that no output list is returned, whatever outputs were
\* built, and no item after k has a request issued for it; the error of a
\* failed request is the one the request was rejected with, the request is
\* the last one issued, and after a failed API request (no response has
\* arrived) item k has no download.
C15_FailureEndsExecute ==
    /\ [](error # "" =>
            /\ Failed
            /\ returned = NotReturned
            /\ ~InFlight
            /\ \A i \in DOMAIN sent : sent[i].item <= itemIndex
            /\ error \in TransportErrors =>
                  /\ sent # <<>>
                  /\ sent[Len(sent)].item = itemIndex
                  /\ response = Undef =>
                        /\ sent[Len(sent)].method = "POST"
                        /\ Gets(itemIndex) = {})
    /\ [][~Failed /\ (Failed' => error' # "")]_vars

\* the API request of the second of two items failed after the first item
\* had its output built
C15_Witness ==
    /\ Failed
    /\ error = "ECONNREFUSED"
    /\ nItems = 2
    /\ itemIndex = 1
    /\ Len(out) = 1
    /\ response = Undef
    /\ returned = NotReturned

\* an iteration has just pushed its output item
Pushed == pc = "loop" /\ itemIndex > 0
LastOut == out[itemIndex]

\* the output binary property names the step just taken read
OutputNamesRead ==
    {params.p[n].str :
        n \in {"outputBinaryProperty", "imageOutputBinaryProperty",
               "pdfOutputBinaryProperty"} \cap DOMAIN params.p}

\* C16: an output item carries binary data if and only if the download
\* parameter of its item was read and was on; it then carries one binary
\* entry, under the name the output binary property parameter gave; and in
\* every case its json is the API response of the item.
C16_BinaryIffDownload ==
    Pushed =>
        /\ LastOut.json = response
        /\ response \in ApiResponses
        /\ "binary" \in DOMAIN LastOut <=> DownloadAsked
        /\ "binary" \in DOMAIN LastOut =>
              /\ Cardinality(DOMAIN LastOut.binary) = 1
              /\ DOMAIN LastOut.binary = OutputNamesRead
        /\ DOMAIN LastOut \subseteq {"json", "binary"}

\* an item pushed with its download under the property 'result'
C16_Witness ==
    /\ Pushed
    /\ DownloadAsked
    /\ OutputNamesRead = {"result"}
    /\ DOMAIN LastOut = {"json", "binary"}
    /\ DOMAIN LastOut.binary = {"result"}
    /\ LastOut.binary.result.data = [from |-> "https://cdn/a.png"]

\* the API request in flight is of resource tools or of image metadata
NoDownloadOperation ==
    /\ pc = "awaitApi"
    /\ \/ local.resource = "tools"
       \/ local.resource = "image" /\ local.action = "metadata"

\* C17: for resource tools and for image metadata no download request is
\* ever issued and the output item has no binary data, whatever the download
\* parameters are and whatever the response holds: the step that follows the
\* API request of such an item issues no request, and either pushes an item
\* without binary data or fails with the error of the API request.
C17_NeverDownloads ==
    [][NoDownloadOperation =>
          /\ sent' = sent
          /\ ~InFlight'
          /\ pc' \in {"loop", "failed"}
          /\ pc' = "loop" => out' = Append(out, [json |-> response'])
          /\ pc' = "failed" => error' \in TransportErrors]_vars

\* an image metadata item pushed without binary data, its response holding
\* a URL
C17_Witness ==
    /\ Pushed
    /\ params.p = EmptyFn
    /\ sent[Len(sent)] = [item |-> itemIndex - 1, method |-> "POST",
                          url |-> "https://h/v1/image"]
    /\ response = Obj([status |-> S("ok"), url |-> S("https://cdn/u.png")])
    /\ LastOut = [json |-> response]

\* the request in flight is the one br, what a branch came to, asks for
RequestIs(br) ==
    /\ br.error = ""
    /\ req = davixRequestOptions(creds, br.options)

PdfFields(action) ==
    CASE action = "merge" -> {"sortByName"}
      [] action = "split" -> {"ranges", "prefix"}
      [] action = "to-images" -> {"pages", "toFormat", "width", "height", "dpi"}
      [] action = "extract-images" -> {"pages", "imageFormat"}
      [] action = "watermark" ->
           {"pages", "watermarkText", "watermarkOpacity", "watermarkPosition",
            "watermarkMargin", "watermarkFontSize", "watermarkColor", "watermarkScale",
            "watermarkImage"}
      [] action = "rotate" -> {"degrees", "pages"}
      [] action = "metadata" ->
           {"title", "author", "subject", "keywords", "creator", "producer",
            "cleanAllMetadata"}
      [] action = "reorder" -> {"order"}
      [] action = "delete-pages" -> {"pages"}
      [] action = "extract" -> {"pages", "mode", "prefix"}
      [] action = "flatten" -> {"flattenForms"}
      [] action = "encrypt" -> {"userPassword", "ownerPassword"}
      [] action = "decrypt" -> {"password"}
      [] action = "compress" -> {}

\* C19: for resource pdf the form sent holds 'action', the selected action,
\* 'files', and otherwise only fields that belong to the selected action; a
\* field of another pdf action is not in it, whatever that action's
\* parameters are set to.
C19_OnlyFieldsOfTheAction ==
    (Requested /\ ItemOf("pdf")) =>
        /\ {"action", "files"} \subseteq DOMAIN req.formData
        /\ req.formData.action = params.p.operation
        /\ DOMAIN req.formData \subseteq
               {"action", "files"} \cup PdfFields(params.p.operation.str)

\* a merge sent with its own field only, the parameters of split being set
C19_Witness ==
    /\ Requested
    /\ ItemOf("pdf")
    /\ params.p.operation = S("merge")
    /\ {"ranges", "prefix"} \subseteq DOMAIN params.p
    /\ Truthy(params.p.ranges)
    /\ Truthy(params.p.prefix)
    /\ DOMAIN req.formData = {"action", "files", "sortByName"}

\* the tool each tool-specific option belongs to
ToolOf ==
    [includeRawExif |-> "metadata", paletteSize |-> "palette", hashType |-> "hash",
     qualitySample |-> "quality", transparencySample |-> "transparency",
     similarityMode |-> "similarity", similarityThreshold |-> "similarity",
     efficiencyFormat |-> "efficiency", efficiencyQuality |-> "efficiency"]

\* the tools selected for the current item, in selection order
SelectedTools ==
    IF params.p.operation = S("single") THEN <<params.p.tool>> ELSE params.p.tools.arr

\* the strings of q with a comma between each two
RECURSIVE CommaList(_)
CommaList(q) ==
    IF q = <<>> THEN ""
    ELSE IF Len(q) = 1 THEN q[1].str
    ELSE q[1].str \o "," \o CommaList(Tail(q))

\* C20: for resource tools the 'tools' field is the selected tool for
\* operation single, and the selected tools in selection order with commas
\* between them for operation multitask; the field of a tool-specific option
\* is in the form only when its tool is among the selected tools and the
\* options collection has the option.
C20_ToolsAndTheirOptions ==
    (Requested /\ ItemOf("tools")) =>
        /\ params.p.operation = S("single") => req.formData.tools = params.p.tool
        /\ params.p.operation = S("multitask") =>
               req.formData.tools = S(CommaList(params.p.tools.arr))
        /\ \A k \in DOMAIN ToolOf :
               k \in DOMAIN req.formData =>
                   /\ \E i \in DOMAIN SelectedTools : SelectedTools[i] = S(ToolOf[k])
                   /\ hasVal(params.p.options, k)
        /\ DOMAIN req.formData \subseteq {"action", "images", "tools"} \cup DOMAIN ToolOf

\* a multitask of palette then hash, whose tools field lists them in that
\* order
C20_Witness ==
    /\ Requested
    /\ ItemOf("tools")
    /\ params.p.operation = S("multitask")
    /\ params.p.tools = Arr(<<S("palette"), S("hash")>>)
    /\ req.formData.tools = S("palette,hash")

\* the image multitask request of the current item is in flight
MultitaskRequested ==
    Requested /\ ItemOf("image") /\ params.p.operation = S("multitask")

\* the keys present in the options collection of the current item
SelectedKeys == DOMAIN params.p.options.obj

\* C21: for resource image with operation multitask only selected options
\* are sent: a field other than 'action', 'images' and 'watermarkImage' is
\* in the form only if its key is in the options collection; 'watermarkImage'
\* is there exactly when a watermark binary property is named; so with an
\* empty collection the form holds 'action', 'images' and, when named, the
\* watermark image.
C21_OnlySelectedOptions ==
    MultitaskRequested =>
        /\ {"action", "images"} \subseteq DOMAIN req.formData
        /\ DOMAIN req.formData \ {"action", "images", "watermarkImage"}
               \subseteq SelectedKeys
        /\ "watermarkImage" \in DOMAIN req.formData
               <=> Truthy(params.p.watermarkBinaryProperty)
        /\ SelectedKeys = {} =>
               DOMAIN req.formData \subseteq {"action", "images", "watermarkImage"}

\* a multitask with an empty options collection and a watermark binary
\* property named: the form holds action, images and the watermark image
C21_Witness ==
    /\ MultitaskRequested
    /\ SelectedKeys = {}
    /\ params.p.watermarkBinaryProperty = S("x")
    /\ DOMAIN req.formData = {"action", "images", "watermarkImage"}

\* the grouped multitask request of the current item is in flight
GroupedRequested == Requested /\ "actions" \in DOMAIN params.p

\* the value the i-th selected action supplies for the field of its
\* statement st, and whether it supplies one: a number that is not zero, a
\* string that is not empty, a boolean its parameter group holds
SuppliedValue(i, st) ==
    Get(ActionParams(params.p, params.p.actions.arr[i].str), st.param)

Supplies(i, st) ==
    LET v == SuppliedValue(i, st) IN
    CASE st.k = "num" -> ~IsUndef(v) /\ ToNumber(v) # N(0)
      [] st.k = "str" -> ~IsUndef(v) /\ ToStr(v) # ""
      [] st.k = "bool" -> ~IsUndef(v)
      [] OTHER -> FALSE

\* the selected actions that supply a value for the field f, by position
Suppliers(f) ==
    {i \in DOMAIN params.p.actions.arr :
        LET stmts == GroupedCase(params.p.actions.arr[i].str) IN
        \E j \in DOMAIN stmts : stmts[j].field = f /\ Supplies(i, stmts[j])}

\* the value the i-th selected action supplies for the field f, as sent
Sent(i, f) ==
    LET stmts == GroupedCase(params.p.actions.arr[i].str)
        st == stmts[CHOOSE j \in DOMAIN stmts : stmts[j].field = f]
        v == SuppliedValue(i, st)
    IN CASE st.k = "num" -> S(ToStr(ToNumber(v)))
         [] st.k = "str" -> S(ToStr(v))
         [] st.k = "bool" -> S(ToStr(ToBoolean(v)))

\* the fields of the kinds given that some selected action supplies go out
\* with the value of the earliest selected action that supplies one
FirstWriterWins(kinds) ==
    GroupedRequested =>
        \A a \in DOMAIN params.p.actions.arr :
            LET stmts == GroupedCase(params.p.actions.arr[a].str) IN
            \A j \in DOMAIN stmts :
                (stmts[j].k \in kinds /\ Supplies(a, stmts[j])) =>
                    LET f == stmts[j].field
                        first == CHOOSE i \in Suppliers(f) :
                                     \A k \in Suppliers(f) : i <= k
                    IN f \in DOMAIN req.formData /\ req.formData[f] = Sent(first, f)

\* C22 as the specification states it: the parameters of the selected
\* actions go into one request, a field that several selected actions
\* supply holding the value of the earliest of them, in the selected order,
\* that supplies a non-zero or non-empty value; and an empty selection
\* raises 'Select at least one action for multitask.' before any request.
\* Refuted for the boolean fields: an action whose parameter group holds no
\* value for a flag writes 'false' for it, and the value a later action
\* supplies is then left out.
C22_FirstWriterWins ==
    /\ FirstWriterWins({"num", "str", "bool"})
    /\ ("actions" \in DOMAIN params.p /\ params.p.actions = Arr(<<>>)) =>
           pc = "failed" /\ error = "Select at least one action for multitask."
                         /\ sent = <<>>

\* the API answered the current item and its branch came to the download
DownloadReached ==
    /\ pc \in {"awaitDownload", "failed"}
    /\ IsObj(response)
    /\ \E k \in {"downloadBinary", "imageDownloadBinary", "pdfDownloadBinary"} :
         k \in DOMAIN params.p /\ params.p[k] = B(TRUE)

\* the elements of response.results a URL can be taken from, by position
Usable(results) ==
    {i \in DOMAIN results : Truthy(Get(results[i], "url")) \/ IsStr(results[i])}

\* the URL the specification has downloaded for a response: response.url
\* when a string, else from the first usable element of results
ChosenUrl(resp) ==
    LET u == Get(resp, "url")
        rs == Get(resp, "results")
    IN IF IsStr(u) THEN u.str
       ELSE IF IsArr(rs) /\ Usable(rs.arr) # {}
       THEN LET i == CHOOSE j \in Usable(rs.arr) : \A k \in Usable(rs.arr) : j <= k
            IN IF IsStr(rs.arr[i]) THEN rs.arr[i].str ELSE Get(rs.arr[i], "url").str
       ELSE ""

\* C23: the URL downloaded is response.url whenever that is a string, even
\* the empty one (results is then not consulted and 'No URL returned to
\* download.' is raised); otherwise it comes from the first element of
\* results, in order, that has a truthy url or is itself a string;
\* otherwise there is none, and the same error is raised.
C23_UrlChosen ==
    DownloadReached =>
        /\ error = "No URL returned to download." <=> ChosenUrl(response) = ""
        /\ pc = "awaitDownload" => req.url = ChosenUrl(response)
        /\ ChosenUrl(response) # "" =>
               sent[2] = [item |-> itemIndex, method |-> "GET",
                          url |-> ChosenUrl(response)]
        /\ ChosenUrl(response) = "" => Len(sent) = 1

C23_Witness ==
    /\ DownloadReached
    /\ pc = "failed"
    /\ error = "No URL returned to download."
    /\ response = Obj([url |-> S(""),
                       results |-> Arr(<<Obj([url |-> S("https://cdn/a.png")])>>)])

\* C24: the download request is a GET of exactly the URL the API returned,
\* not prefixed with the base URL, and holds no x-api-key header: it is the
\* same request whatever the credential record, made of the response alone.
C24_DownloadWithoutKey ==
    pc = "awaitDownload" =>
        /\ req = [method |-> "GET", url |-> ChosenUrl(response), encoding |-> "null",
                  resolveWithFullResponse |-> TRUE]
        /\ "headers" \notin DOMAIN req
        /\ sent[Len(sent)] = [item |-> itemIndex, method |-> "GET",
                              url |-> ChosenUrl(response)]

C24_Witness ==
    /\ pc = "awaitDownload"
    /\ creds.apiKey = S(<<"key2">>)
    /\ req.url = "https://cdn/b.png"
    /\ "headers" \notin DOMAIN req

\* davixRequest was called: it threw, or its request went out
CallMade == "options" \in DOMAIN params

\* creds.baseUrl as davixRequest reads it: String(creds.baseUrl || '')
RawBaseUrl == IF IsStr(creds.baseUrl) THEN creds.baseUrl.str ELSE <<>>

\* the number of slashes a token sequence ends with, and begins with
RECURSIVE TrailingSlashes(_)
TrailingSlashes(q) ==
    IF q = <<>> \/ q[Len(q)] # "/" THEN 0
    ELSE 1 + TrailingSlashes(SubSeq(q, 1, Len(q) - 1))

RECURSIVE LeadingSlashes(_)
LeadingSlashes(q) ==
    IF q = <<>> \/ q[1] # "/" THEN 0 ELSE 1 + LeadingSlashes(Tail(q))

\* C25: the base URL loses exactly one trailing '/' and the path gains a
\* leading '/' when it has none (the empty path becomes '/') before the two
\* are put together, so a base URL with at most one trailing slash has
\* exactly one '/' between it and the path; a base URL that is missing,
\* empty or just '/' raises 'Missing Base URL in credentials.' and nothing
\* is sent.
C25_UrlNormalized ==
    CallMade =>
        LET b == RawBaseUrl
            base == IF TrailingSlashes(b) > 0 THEN SubSeq(b, 1, Len(b) - 1) ELSE b
            path == params.options.url
            slashed == IF LeadingSlashes(path) > 0 THEN path ELSE <<"/">> \o path
        IN /\ error = "Missing Base URL in credentials." <=> b \in {<<>>, <<"/">>}
           /\ b \in {<<>>, <<"/">>} => pc = "failed" /\ sent = <<>>
           /\ TrailingSlashes(base) = TrailingSlashes(b) - (IF TrailingSlashes(b) > 0 THEN 1 ELSE 0)
           /\ pc = "awaitApi" =>
                  /\ req.url = Join(base \o slashed)
                  /\ TrailingSlashes(b) <= 1 /\ LeadingSlashes(path) <= 1 =>
                         TrailingSlashes(base) = 0 /\ LeadingSlashes(slashed) = 1

\* a base URL ending in two slashes keeps one of them
C25_Witness ==
    /\ CallMade
    /\ pc = "awaitApi"
    /\ creds.baseUrl = S(<<"https://h", "/", "/">>)
    /\ params.options.url = <<>>
    /\ req.url = "https://h//"

\* the request of an item that attaches files is in flight
FilesRequested == Requested /\ ~ItemOf("h2i") /\ FileField \in DOMAIN req.formData

\* the comma-separated entries of the list of the current item, by the
\* places of its commas: the k-th entry lies between the k-1st and the k-th
Commas == {i \in DOMAIN PropList : PropList[i] = ","}

CommaAt(k) ==
    IF k = 0 THEN 0
    ELSE IF k > Cardinality(Commas) THEN Len(PropList) + 1
    ELSE CHOOSE i \in Commas : Cardinality({j \in Commas : j <= i}) = k

\* the k-th entry less the blanks around it
Entry(k) ==
    LET inner == {i \in (CommaAt(k - 1) + 1)..(CommaAt(k) - 1) : PropList[i] # " "}
    IN IF inner = {} THEN <<>>
       ELSE SubSeq(PropList, CHOOSE i \in inner : \A j \in inner : i <= j,
                   CHOOSE i \in inner : \A j \in inner : j <= i)

NonBlank(q) == q # <<>>

\* the entries that are not blank, trimmed, in the order listed
Entries == SelectSeq([k \in 1..(Cardinality(Commas) + 1) |-> Entry(k)], NonBlank)

\* the binary properties the file parts of the request were read from
PartNames ==
    [i \in DOMAIN req.formData[FileField].arr |->
        req.formData[FileField].arr[i].value.property]

\* C26: the file parts are attached in the order the names appear in the
\* comma-separated list, each name trimmed and the blank entries dropped; a
\* name listed twice is attached twice, so there are as many parts as
\* entries that are not blank.
C26_PartsInListOrder ==
    FilesRequested =>
        /\ Len(PartNames) = Len(Entries)
        /\ \A i \in DOMAIN PartNames : PartNames[i] = Join(Entries[i])

\* a name listed twice: two parts from one property, two entries out of two
C26_Witness ==
    /\ FilesRequested
    /\ PropList = <<"data", ",", "data">>
    /\ PartNames = <<"data", "data">>

\* the extension of a format parameter
Ext(f) == IF f = S("jpeg") THEN "jpg" ELSE f.str

\* the download name the specification gives the item of parameters p
NameByParameters(p) ==
    CASE p.resource = S("h2i") ->
           IF p.operation = S("pdf") THEN "h2i.pdf" ELSE "h2i." \o Ext(p.format)
      [] p.resource = S("image") -> "pixlab-image." \o Ext(p.imageFormat)
      [] p.resource = S("pdf") -> "pixlab-pdf-result.bin"

\* the file name of the binary the last output item holds
LastFileName ==
    LET b == out[Len(out)].binary IN b[CHOOSE k \in DOMAIN b : TRUE].fileName

\* C27: the name of the downloaded file is fixed by the parameters of the
\* item, whatever the response: 'h2i.pdf' or 'h2i.<format>' for h2i,
\* 'pixlab-image.<ext>' with ext from imageFormat for every image operation
\* (pdf export and multitask included, whose format field may differ),
\* 'pixlab-pdf-result.bin' for pdf; jpeg gives the extension 'jpg'.
C27_FileNameByParameters ==
    [][/\ (pc = "awaitApi" /\ pc' = "awaitDownload") =>
              local'.fileName = NameByParameters(params.p)
       /\ (pc = "awaitDownload" /\ pc' = "loop") =>
              LastFileName' = local.fileName]_vars

\* image pdf export with imageFormat jpeg: the request asked for format
\* 'pdf', the file downloaded is named 'pixlab-image.jpg'
C27_Witness ==
    /\ pc = "awaitDownload"
    /\ local.resource = "image"
    /\ local.action = "pdf"
    /\ local.fileName = "pixlab-image.jpg"
    /\ req.method = "GET"

\* the loop body ran on the current item, and the item is not past it
ItemBegun == "resource" \in DOMAIN params.p

\* C28: for image, pdf and tools items the input is validated and the
\* binaries are attached before the credentials are read: an item whose
\* binary-property list is empty fails with 'No binary property names
\* provided.' even when the credentials are incomplete; for an h2i item the
\* credential check comes first, no other check standing before it.
C28_InputChecksBeforeCredentials ==
    (ItemBegun /\ MissingCredentials) =>
        /\ pc = "failed" /\ sent = <<>>
        /\ (~ItemOf("h2i") /\ BlankList) => error = "No binary property names provided."
        /\ ItemOf("h2i") => error \in ConfigurationErrors
        /\ (~ItemOf("h2i") /\ error \in ConfigurationErrors) => ~BlankList

\* a tools item with an empty list, under credentials lacking both fields
C28_Witness ==
    /\ ItemBegun
    /\ creds = [baseUrl |-> Undef, apiKey |-> Undef]
    /\ ItemOf("tools")
    /\ PropList = <<>>
    /\ pc = "failed"
    /\ error = "No binary property names provided."

\* the watermark binary property the current item names ("" when its
\* operation reads none, or none is named)
WatermarkNamed ==
    IF \E o \in WatermarkOperations :
          ItemOf(o[1]) /\ params.p.operation = S(o[2])
    THEN ToStr(params.p[WatermarkParam(params.p.resource.str, params.p.operation.str)])
    ELSE ""

\* C29: a watermark image goes out as one form part, not an array, under
\* 'watermarkImage' exactly when a watermark binary property is named; the
\* parts under 'images' / 'files' are those of the list, no more and no
\* other; the part is named after the fileName of the input binary, and
\* 'watermarkImage' when the binary has none.
C29_WatermarkSinglePart ==
    Requested /\ ~ItemOf("h2i") =>
        /\ "watermarkImage" \in DOMAIN req.formData <=> WatermarkNamed # ""
        /\ WatermarkNamed # "" =>
               /\ DOMAIN req.formData.watermarkImage = {"part"}
               /\ req.formData.watermarkImage.part.value =
                      [item |-> itemIndex, property |-> WatermarkNamed]
               /\ req.formData.watermarkImage.part.filename =
                      IF HasMeta(WatermarkNamed, "fileName")
                      THEN Meta(WatermarkNamed).obj.fileName
                      ELSE S("watermarkImage")
        /\ DOMAIN req.formData[FileField] = {"arr"}
        /\ [i \in DOMAIN req.formData[FileField].arr |->
               req.formData[FileField].arr[i].value.property] = Listed

\* a pdf watermark whose image has no fileName, beside the one file listed
C29_Witness ==
    /\ Requested /\ ItemOf("pdf")
    /\ WatermarkNamed = "b"
    /\ ~HasMeta("b", "fileName")
    /\ req.formData.watermarkImage.part.filename = S("watermarkImage")
    /\ Len(req.formData.files.arr) = 1

====
